---- MODULE Spec2Model ----
(***************************************************************************)
(* Tool routing and multi-round function calling of the chat application.  *)
(*                                                                         *)
(*   Spec      one function-calling turn: chatWithCsvTools and             *)
(*             chatWithYoutubeTools (services/openai.js) driving           *)
(*             executeTool (services/csvTools.js) and executeYoutubeTool   *)
(*             (services/youtubeTools.js).                                 *)
(*   SpecSend  the mode selection of handleSend (components/Chat.js) over  *)
(*             the attachment state of the Chat component.                 *)
(*   SpecRace      handleSend calls racing on a new session.               *)
(*   SpecTurn      the body of handleSend: stores, paths, Stop.            *)
(*   SpecContext   the history and the annotated message of a turn.        *)
(*   SpecPlay      the play_video tool.                                    *)
(*   SpecTools     the tools of csvTools.js and youtubeTools.js.           *)
(*   SpecParse     parseCsvToRows on written CSV texts.                    *)
(*   SpecEnrich    enrichWithEngagement applied again and again.           *)
(*   SpecStream    streamChat reading a body cut anywhere.                 *)
(*   SpecSessions  sessions selected, created, loaded; CSVs dropped.       *)
(*   SpecStop      SpecTurn entered with Stop not yet pressed.             *)
(*   SpecLive      SpecTurn with fair steps of the handler.                *)
(*   SpecDuration  durations written by the server, read by tools.         *)
(*   SpecRegister  interleaved POST /api/users requests.                   *)
(***************************************************************************)
EXTENDS Integers, Sequences, FiniteSets, TLC

VARIABLES
    \* ---- Chat component state (Chat.js:125-147) ----
    input,            \* text box content, a sequence of words
    images,           \* attached images (base64 payloads, abstracted)
    csvContext,       \* pending CSV attachment chip: TRUE when set
    sessionCsvRows,   \* [set, rows]: parsed rows for the JS tools, set = FALSE is null
    sessionJsonData,  \* [set, videos]: parsed channel JSON, set = FALSE is null
    jsonContext,      \* pending JSON attachment chip: TRUE when set
    streaming,        \* a turn is in flight
    turn,             \* locals of the handleSend in flight: its inputs and its routing
    \* ---- one function-calling turn (openai.js:152-357) ----
    mode,             \* "csv" (chatWithCsvTools) or "youtube" (chatWithYoutubeTools)
    menu,             \* the tool call the simulated model may request besides the filler
    pc,               \* position inside the orchestrator
    round,            \* loop variable of the for loop
    messages,         \* the messages array
    sent,             \* body.messages of the latest completion request
    nRequests,        \* completion requests sent in this turn
    response,         \* the latest answer of the completion endpoint
    toolCallsList,    \* msg.tool_calls of the response being executed
    idx,              \* position of the for..of loop over toolCallsList
    toolCalls,        \* the toolCalls array
    charts,           \* the charts array
    ret,              \* value returned or error raised by the orchestrator
    \* ---- arguments of the orchestrators (openai.js:152, 256) ----
    history,          \* the prior turns handleSend passes, oldest first
    newMessage,       \* promptForModel, the text of the new user message
    \* ---- the body of one handleSend (Chat.js:471-616) and streamChat ----
    hpc,              \* position of the handler
    abortRef,         \* abortRef.current
    body,             \* the frames of the streaming response read so far
    events,           \* the events streamChat has yielded so far
    local,            \* fullContent, toolCharts and toolCalls of the handler
    persisted,        \* the messages stored by POST /api/messages, oldest first
    \* ---- sends in flight (Chat.js:369-382) ----
    activeSessionId,  \* 0 is 'new', k > 0 the id of a stored session
    nSessions,        \* sessions stored by createSession
    handlers,         \* the handleSend invocations started, in start order
    \* ---- the services called on their own (csvTools.js, youtubeTools.js) ----
    csvGrid,          \* the header cells and the rows of cells a CSV text was written from
    csvText,          \* the CSV text, a sequence of characters
    dataset,          \* [headers, rows] as parseCsvToRows and enrichWithEngagement return it
    step,             \* calls of the service made so far
    wire,             \* the bytes of a streaming response body, as the server wrote them
    buf,              \* buf of streamChat: the bytes read after the last line end
    \* ---- the server (server/index.js) ----
    clip,             \* a video length, the duration string written for it and what is read
    users,            \* the users collection: its records, in insertion order
    requests,         \* the POST /api/users requests received, each with its position
    \* ---- more state of the Chat component (Chat.js:127, 132-134, 174) ----
    displayed,        \* messages: the messages displayed, each with the session it is of
    loads,            \* the loadMessages calls in flight: their session ids, in start order
    sessionCsvHeaders, \* [set, names]: the headers of the parsed rows
    csvDataSummary,   \* [set, rows, columns]: the summary text, set = FALSE is null or ''
    sessionSlimCsv    \* [set, columns]: the slim CSV text, set = FALSE is null or ''

vars == << input, images, csvContext, sessionCsvRows, sessionJsonData, jsonContext, streaming, turn,
           mode, menu, pc, round, messages, sent, nRequests, response, toolCallsList, idx,
           toolCalls, charts, ret, history, newMessage, hpc, abortRef, body, events, local,
           persisted, activeSessionId, nSessions, handlers, csvGrid, csvText,
           dataset, step, wire, buf, clip, users, requests, displayed, loads, sessionCsvHeaders, csvDataSummary,
           sessionSlimCsv >>

uiVars == << input, images, csvContext, sessionCsvRows, sessionJsonData, jsonContext,
            streaming, turn >>

fcVars == << mode, menu, pc, round, messages, sent, nRequests, response, toolCallsList, idx,
             toolCalls, charts, ret >>

ctxVars == << history, newMessage >>

chatVars == << displayed, loads, sessionCsvHeaders, csvDataSummary, sessionSlimCsv >>

serverVars == << clip, users, requests >>

svcVars == << csvGrid, csvText, dataset, step, wire, buf, serverVars, chatVars >>

turnVars == << hpc, abortRef, body, events, local >>

raceVars == << activeSessionId, nSessions, handlers >>

\* what the steps of an orchestrator leave alone
hostVars == << uiVars, ctxVars, svcVars, turnVars, persisted, raceVars >>

\* what the events of the Chat component leave alone between turns
idleVars == << fcVars, ctxVars, svcVars, turnVars, persisted, raceVars >>

(***************************************************************************)
(* Bounds of the model                                                     *)
(***************************************************************************)
MaxCallsPerRound == 2
MaxTurnCalls == 5
MaxWords == 2
MaxImages == 1

(***************************************************************************)
(* Program constants                                                       *)
(***************************************************************************)
MaxRounds == 5
DefaultN == 10

(***************************************************************************)
(* Values                                                                  *)
(***************************************************************************)
\* JavaScript undefined, as the value of a missing argument or property
Undefined == "undefined"

\* a cell of a row or a field of a video: a number or a string
Num(n) == [num |-> TRUE, n |-> n, s |-> ""]
Str(s) == [num |-> FALSE, n |-> 0, s |-> s]

\* parseFloat(r[col]) is a number (not NaN): the key exists and the value parses
IsNumeric(r, col) == col \in DOMAIN r /\ r[col].num

\* the dataset a CSV attachment yields after parseCsvToRows and enrichWithEngagement
SampleHeaders == << "text", "Favorite Count", "View Count", "engagement" >>

SampleRows ==
    << [c \in {"text", "Favorite Count", "View Count", "engagement"} |->
            CASE c = "text" -> Str("hello")
              [] c = "Favorite Count" -> Num(3)
              [] c = "View Count" -> Num(10)
              [] OTHER -> Num(0)],
       [c \in {"text", "Favorite Count", "View Count", "engagement"} |->
            CASE c = "text" -> Str("world")
              [] c = "Favorite Count" -> Num(7)
              [] c = "View Count" -> Num(20)
              [] OTHER -> Num(0)] >>

\* a CSV file with a header line only parses to no rows (csvTools.js:93)
CsvDatasets == { << >>, SampleRows }

\* rows with ties, blanks and text in their columns: "likes" holds a blank and
\* a word among its numbers, "lang" a blank among its words
Tweet(text, fav, view, likes, lang, retweets) ==
    [c \in {"text", "Favorite Count", "View Count", "likes", "lang", "retweets"} |->
        CASE c = "text" -> Str(text)
          [] c = "Favorite Count" -> Num(fav)
          [] c = "View Count" -> Num(view)
          [] c = "likes" -> likes
          [] c = "lang" -> Str(lang)
          [] OTHER -> retweets]

TweetRows ==
    << Tweet("t1", 3, 10, Num(2), "fr", Num(3)),
       Tweet("t2", 7, 20, Str(""), "en", Num(1)),
       Tweet("t3", 3, 30, Num(1), "", Num(4)),
       Tweet("t4", 5, 40, Str("n/a"), "en", Num(2)),
       Tweet("t5", 7, 50, Num(3), "de", Str("")) >>

VideoFields == {"video_id", "title", "view_count", "published_at", "duration"}

Video(id, title, views, date) ==
    [f \in VideoFields |->
        CASE f = "video_id" -> Str(id)
          [] f = "title" -> Str(title)
          [] f = "view_count" -> Num(views)
          [] f = "published_at" -> Num(date)
          [] OTHER -> Str("PT4M13S")]

SampleVideos == << Video("v1", "A", 10, 3), Video("v2", "B", 30, 1), Video("v3", "C", 20, 2) >>

\* a video with the cells given for its views, its date and its duration
Clip(id, views, date, duration) ==
    [Video(id, id, 0, 0) EXCEPT !["view_count"] = views, !["published_at"] = date,
                                !["duration"] = duration]

\* videos of every kind of duration: of the form PT#H#M#S, a string of another
\* form, a number, blank; two share a date, one has no date, one has views that
\* are not a number
DurationVideos ==
    << Clip("c1", Num(3), Num(3), Str("PT4M13S")),
       Clip("c2", Num(1), Num(1), Str("PT1H")),
       Clip("c3", Num(4), Num(2), Str("PT5X")),
       Clip("c4", Num(2), Num(2), Str("4:13")),
       Clip("c5", Str("n/a"), Num(5), Num(90)),
       Clip("c6", Str(""), Num(4), Str("")),
       Clip("c7", Str("n/a"), Str(""), Str("xPT2M")) >>

\* videos whose titles hold the words and digits of selectors
TitledVideos ==
    << Video("t1", "Last", 10, 1), Video("t2", "Most Viewed", 5, 2), Video("t3", "Top 10", 50, 3) >>

ChannelDatasets == { << >>, SampleVideos }

NullData == [set |-> FALSE, rows |-> << >>]
NullJson == [set |-> FALSE, videos |-> << >>]

(***************************************************************************)
(* Tool calls and results                                                  *)
(***************************************************************************)
\* The arguments payload of a tool call, tc.function.arguments:
\*   "absent"     no payload, or the empty string
\*   "malformed"  text that JSON.parse rejects
\*   "null"       the JSON text null
\*   "scalar"     a JSON number, string, boolean or array
\*   "object"     a JSON object; arg is the value of the tool's argument,
\*                Undefined when the object does not carry it
PayloadKinds == {"absent", "malformed", "null", "scalar", "object"}

Payload(kind, arg) == [kind |-> kind, arg |-> arg]

\* a number argument: not given, or given as n
NoNumber == << >>
Given(n) == << n >>

\* The parsed arguments: an object with the tool's argument, null, or a scalar.
\* arg is the column, field, selector or prompt; n is top_n or n; ascending is
\* the flag of get_top_tweets, FALSE when it is not given (args.ascending ?? false)
Args(arg, n, ascending) == [type |-> "object", arg |-> arg, n |-> n, ascending |-> ascending]

EmptyArgs == Args(Undefined, NoNumber, FALSE)

\* openai.js:218-221 and 325-328: let args = {}; try { args = JSON.parse(arguments || '{}') } catch {}
parseArgs(payload) ==
    CASE payload.kind = "absent" -> EmptyArgs
      [] payload.kind = "malformed" -> EmptyArgs
      [] payload.kind = "null" -> [EmptyArgs EXCEPT !.type = "null"]
      [] payload.kind = "scalar" -> [EmptyArgs EXCEPT !.type = "scalar"]
      [] OTHER -> Args(payload.arg, NoNumber, FALSE)

\* A tool result.  error = "" means the object has no error property,
\* _chartType = "" that it has no _chartType, imageData = "" no imageData.
\* key is the column, field or title the result names, count its count or the
\* length of its list, value what it computed: the statistics, the
\* value_counts entries in iteration order, the tweets or the data pairs
Result(tool, key, count) ==
    [error |-> "", _chartType |-> "", imageData |-> "", _note |-> "",
     tool |-> tool, key |-> key, count |-> count, value |-> << >>]

ErrorResult(msg, key) ==
    [error |-> msg, _chartType |-> "", imageData |-> "", _note |-> "",
     tool |-> "", key |-> key, count |-> 0, value |-> << >>]

ChartResult(type, key, count) ==
    [error |-> "", _chartType |-> type, imageData |-> "", _note |-> "",
     tool |-> "", key |-> key, count |-> count, value |-> << >>]

WithValue(result, value) == [result EXCEPT !.value = value]

NoResult == ErrorResult("", "")

IsError(result) == result.error # ""

\* what a call of executeFn does: it returns a value, throws, or returns a promise
Returned(result) == [outcome |-> "value", result |-> result]
Threw == [outcome |-> "throw", result |-> NoResult]
\* the promise generateImageFn(prompt, anchorImage) returns: key is the prompt
\* and value the anchor image it was called with
Pending(prompt, anchorImage) ==
    [outcome |-> "promise", result |-> WithValue(ErrorResult("", prompt), << anchorImage >>)]

Min(a, b) == IF a < b THEN a ELSE b

\* const v = e; return Op(v): e is computed once
With(e, Op(_)) == CHOOSE r \in { Op(v) : v \in {e} } : TRUE

\* Array.prototype.sort under a comparator that orders by a number: the
\* sequence of [k, v] records in ascending k, equal k in their input order
RECURSIVE InsertByKey(_, _)
InsertByKey(sorted, x) ==
    IF sorted = << >> THEN << x >>
    ELSE IF x.k < sorted[Len(sorted)].k
         THEN Append(InsertByKey(SubSeq(sorted, 1, Len(sorted) - 1), x), sorted[Len(sorted)])
         ELSE Append(sorted, x)

RECURSIVE SortByKey(_)
SortByKey(s) ==
    With(s, LAMBDA seq :
        IF seq = << >> THEN << >>
        ELSE With(SortByKey(SubSeq(seq, 1, Len(seq) - 1)),
                  LAMBDA front : InsertByKey(front, seq[Len(seq)])))

\* numbers.sort((a, b) => a - b)
SortNumbers(values) ==
    With(SortByKey([i \in 1..Len(values) |-> [k |-> values[i], v |-> values[i]]]),
         LAMBDA sorted : [i \in 1..Len(sorted) |-> sorted[i].v])

\* x / 2 as a fraction in lowest terms
Half(x) == IF x % 2 = 0 THEN [num |-> x \div 2, den |-> 1] ELSE [num |-> x, den |-> 2]

Whole(x) == [num |-> x, den |-> 1]

RECURSIVE Sum(_)
Sum(values) == IF values = << >> THEN 0 ELSE Head(values) + Sum(Tail(values))

\* the statistics both stats tools report; mean and std follow from sum and count
Stats(count, median, min, max, sum) ==
    [count |-> count, median |-> median, min |-> min, max |-> max, sum |-> sum]

(***************************************************************************)
(* services/csvTools.js                                                    *)
(***************************************************************************)
\* Object.keys(row) in insertion order, which is header order
KeysOf(row) ==
    SelectSeq(SampleHeaders \o << "likes", "lang", "retweets" >>, LAMBDA h : h \in DOMAIN row)

\* s.toLowerCase().replace(/[\s_-]+/g, '') on the column names of the model
norm(s) ==
    CASE s \in {"Favorite Count", "favorite_count", "favorite count"} -> "favoritecount"
      [] s \in {"View Count", "view_count"} -> "viewcount"
      [] s \in {"Text", "text"} -> "text"
      [] OTHER -> s

resolveCol(rows, name) ==
    IF rows = << >> \/ name = Undefined \/ name = "" THEN name
    ELSE LET keys == KeysOf(rows[1])
             hits == SelectSeq(keys, LAMBDA k : norm(k) = norm(name))
         IN  IF \E i \in 1..Len(keys) : keys[i] = name THEN name
             ELSE IF hits # << >> THEN hits[1] ELSE name

numericValues(rows, col) ==
    LET keep == SelectSeq(rows, LAMBDA r : IsNumeric(r, col))
    IN  [i \in 1..Len(keep) |-> keep[i][col].n]

\* csvTools.js:125-128: the median of a sorted array
median(sorted) ==
    IF Len(sorted) % 2 = 0
    THEN Half(sorted[Len(sorted) \div 2] + sorted[Len(sorted) \div 2 + 1])
    ELSE Whole(sorted[Len(sorted) \div 2 + 1])

\* Math.min(...vals) and Math.max(...vals)
MinOf(values) == CHOOSE x \in { values[i] : i \in 1..Len(values) } :
                    \A j \in 1..Len(values) : x <= values[j]
MaxOf(values) == CHOOSE x \in { values[i] : i \in 1..Len(values) } :
                    \A j \in 1..Len(values) : x >= values[j]

\* csvTools.js:293-297: the keys of counts in the order they were first set,
\* each with its count
RECURSIVE Tally(_, _, _)
Tally(rows, col, counts) ==
    IF rows = << >> THEN counts
    ELSE LET r == Head(rows)
             counted == col \in DOMAIN r /\ r[col] # Str("")
             at == { i \in 1..Len(counts) : counted /\ counts[i].key = r[col] }
             next == IF ~counted THEN counts
                     ELSE IF at = {} THEN Append(counts, [key |-> r[col], count |-> 1])
                     ELSE [i \in 1..Len(counts) |->
                               IF i \in at THEN [counts[i] EXCEPT !.count = @ + 1] ELSE counts[i]]
         IN  With(next, LAMBDA counts2 : Tally(Tail(rows), col, counts2))

\* a property key that is an array index: the text of a non-negative integer
IsIndexKey(cell) == cell.num /\ cell.n >= 0

\* the order in which Object.entries and JSON.stringify go through the
\* properties of an object: the index keys in ascending order, then the other
\* keys in the order they were set
OwnKeysOrder(entries) ==
    LET indexed == SelectSeq(entries, LAMBDA e : IsIndexKey(e.key))
        others == SelectSeq(entries, LAMBDA e : ~IsIndexKey(e.key))
    IN  With(SortByKey([i \in 1..Len(indexed) |-> [k |-> indexed[i].key.n, v |-> indexed[i]]]),
             LAMBDA sorted : [i \in 1..Len(sorted) |-> sorted[i].v] \o others)

\* args.top_n || 10 and args.n || 10
orDefault(n) == IF n = NoNumber \/ n[1] = 0 THEN DefaultN ELSE n[1]

\* csvTools.js:288-305
get_value_counts(rows, args) ==
    LET col == resolveCol(rows, args.arg)
        topN == orDefault(args.n)
        byCount(entries) ==
            SortByKey([i \in 1..Len(entries) |-> [k |-> 0 - entries[i].count, v |-> entries[i]]])
        sliced(sorted) == [i \in 1..Min(topN, Len(sorted)) |-> sorted[i].v]
    IN  With(Tally(rows, col, << >>), LAMBDA counts :
        With(OwnKeysOrder(counts), LAMBDA entries :
        With(byCount(entries), LAMBDA sorted :
        With(sliced(sorted), LAMBDA kept :
            WithValue(Result("get_value_counts", col, Len(kept)), OwnKeysOrder(kept))))))

\* csvTools.js:271-286
compute_column_stats(rows, args) ==
    LET col == resolveCol(rows, args.arg)
    IN  With(numericValues(rows, col), LAMBDA vals :
        With(SortNumbers(vals), LAMBDA sorted :
            IF vals = << >> THEN ErrorResult("no_numeric", col)
            ELSE WithValue(Result("compute_column_stats", col, Len(vals)),
                           Stats(Len(vals), median(sorted), MinOf(vals), MaxOf(vals), Sum(vals)))))

\* /^text$/i, else /text|content|tweet|body/i, /favorite.?count/i and
\* /view.?count/i on the column names of the model
FirstHeader(headers, names) ==
    LET hits == SelectSeq(headers, LAMBDA h : h \in names)
    IN  IF hits = << >> THEN Undefined ELSE hits[1]

textNames == {"text", "Text"}
favoriteCountNames == {"Favorite Count", "favorite_count", "favorite count"}
viewCountNames == {"View Count", "view_count"}

\* variant: the array is sorted where it is
sortRows_inPlace(rows, keys) ==
    With(SortByKey([i \in 1..Len(rows) |-> [k |-> keys[i], v |-> rows[i]]]), LAMBDA sorted :
        [sorted |-> [i \in 1..Len(sorted) |-> sorted[i].v],
         rows |-> [i \in 1..Len(sorted) |-> sorted[i].v]])

\* csvTools.js:323 and youtubeTools.js:142-145: [...rows].sort(...) sorts a
\* copy: the sorted array and the rows after the call; keys[i] orders rows[i],
\* and is 0 for every row when the comparator answers 0
sortRows(rows, keys) ==
    With(SortByKey([i \in 1..Len(rows) |-> [k |-> keys[i], v |-> rows[i]]]), LAMBDA sorted :
        [sorted |-> [i \in 1..Len(sorted) |-> sorted[i].v], rows |-> rows])

\* csvTools.js:323-328: the comparator orders two rows by their numbers, and
\* leaves them as they are when either is not a number; the rows of the model
\* hold in a sort column either numbers in every row or in none
sortKeys(rows, sortCol, asc) ==
    With(\A j \in 1..Len(rows) : IsNumeric(rows[j], sortCol), LAMBDA numeric :
        [i \in 1..Len(rows) |->
            IF numeric THEN (IF asc THEN rows[i][sortCol].n ELSE 0 - rows[i][sortCol].n)
            ELSE 0])

\* csvTools.js:330-337: the row shown for a tweet
TopRow(r, rank, shown) ==
    [rank |-> rank, cells |-> [h \in shown |-> r[h]]]

\* csvTools.js:307-348
get_top_tweets(rows, args) ==
    LET sortCol == resolveCol(rows, args.arg)
        n == orDefault(args.n)
        headers == IF rows = << >> THEN << >> ELSE KeysOf(rows[1])
        shown == { FirstHeader(headers, textNames), FirstHeader(headers, favoriteCountNames),
                   FirstHeader(headers, viewCountNames),
                   FirstHeader(headers, {"engagement"}) } \ {Undefined}
        top(sorted) == [i \in 1..Min(n, Len(sorted)) |-> TopRow(sorted[i], i, shown)]
    IN  With(sortKeys(rows, sortCol, args.ascending), LAMBDA keys :
        With(sortRows(rows, keys).sorted, LAMBDA sorted :
        With(top(sorted), LAMBDA topRows :
            IF topRows = << >> THEN ErrorResult("no_rows", sortCol)
            ELSE WithValue(Result("get_top_tweets", sortCol, Len(topRows)), topRows))))

\* the rows after executeTool(toolName, args, rows)
rowsAfter(toolName, args, rows) ==
    IF toolName = "get_top_tweets" /\ args.type # "null"
    THEN With(sortKeys(rows, resolveCol(rows, args.arg), args.ascending),
              LAMBDA keys : sortRows(rows, keys).rows)
    ELSE rows

\* executeTool(toolName, args, rows): reading a property of null throws a TypeError
executeTool(toolName, args, rows) ==
    CASE toolName = "compute_column_stats" ->
            IF args.type = "null" THEN Threw ELSE Returned(compute_column_stats(rows, args))
      [] toolName = "get_value_counts" ->
            IF args.type = "null" THEN Threw ELSE Returned(get_value_counts(rows, args))
      [] toolName = "get_top_tweets" ->
            IF args.type = "null" THEN Threw ELSE Returned(get_top_tweets(rows, args))
      [] OTHER -> Returned(ErrorResult("unknown_tool", toolName))

(***************************************************************************)
(* services/youtubeTools.js                                                *)
(***************************************************************************)
\* the characters of the duration strings of the model
Chars(str) ==
    CASE str = "PT4M13S" -> << "P", "T", "4", "M", "1", "3", "S" >>
      [] str = "PT1H" -> << "P", "T", "1", "H" >>
      [] str = "PT5X" -> << "P", "T", "5", "X" >>
      [] str = "4:13" -> << "4", ":", "1", "3" >>
      [] str = "xPT2M" -> << "x", "P", "T", "2", "M" >>
      [] OTHER -> << >>

Digits == << "0", "1", "2", "3", "4", "5", "6", "7", "8", "9" >>

IsDigit(c) == \E d \in 1..Len(Digits) : Digits[d] = c

\* parseInt(digits, 10)
RECURSIVE parseInt(_)
parseInt(digits) ==
    IF digits = << >> THEN 0
    ELSE parseInt(SubSeq(digits, 1, Len(digits) - 1)) * 10
         + (CHOOSE d \in 0..9 : Digits[d + 1] = digits[Len(digits)])

\* the length of the run of digits of chars that starts at position i
RECURSIVE DigitRun(_, _)
DigitRun(chars, i) ==
    IF i <= Len(chars) /\ IsDigit(chars[i]) THEN 1 + DigitRun(chars, i + 1) ELSE 0

\* (?:(\d+)U)? at position i: the digits captured, << >> when the group does
\* not take part, and the position after it
Group(chars, i, unit) ==
    LET k == DigitRun(chars, i)
    IN  IF k > 0 /\ i + k <= Len(chars) /\ chars[i + k] = unit
        THEN [digits |-> SubSeq(chars, i, i + k - 1), next |-> i + k + 1]
        ELSE [digits |-> << >>, next |-> i]

\* the number a duration is read as, or null
Seconds(n) == [ok |-> TRUE, v |-> n]
Null == [ok |-> FALSE, v |-> 0]

\* youtubeTools.js:81-86: dur.match(/PT(?:(\d+)H)?(?:(\d+)M)?(?:(\d+)S)?/) finds
\* the first "PT" of the string, wherever it is
matchDuration(chars) ==
    LET at == { i \in 1..Len(chars) - 1 : chars[i] = "P" /\ chars[i + 1] = "T" }
    IN  IF at = {} THEN Null
        ELSE LET i == CHOOSE x \in at : \A y \in at : x <= y
                 h == Group(chars, i + 2, "H")
                 m == Group(chars, h.next, "M")
                 sec == Group(chars, m.next, "S")
             IN  Seconds(parseInt(h.digits) * 3600 + parseInt(m.digits) * 60
                         + parseInt(sec.digits))

\* youtubeTools.js:79-87 on a cell of a video
parseDuration(dur) ==
    IF dur.num \/ dur.s = "" THEN Null ELSE matchDuration(Chars(dur.s))

\* a || b on two fields of a video: the first when it is truthy (a string that
\* is not empty, a number that is not 0), else the second
Either(v, a, b) ==
    IF a \in DOMAIN v /\ v[a] # Str("") /\ v[a] # Num(0) THEN v[a]
    ELSE IF b \in DOMAIN v THEN v[b]
    ELSE Str("")

\* the value plot_metric_vs_time and compute_stats_json read from a video:
\* [ok |-> the value is a number, v |-> the number]
FieldValue(v, field) ==
    IF field \in {"duration", "duration_seconds"}
    THEN With(parseDuration(Either(v, "duration", "duration_seconds")), LAMBDA d :
             IF d.ok THEN d
             ELSE IF field \in DOMAIN v /\ v[field].num THEN Seconds(v[field].n)
             ELSE Null)
    ELSE IF IsNumeric(v, field) THEN Seconds(v[field].n)
    ELSE Null

\* v.published_at || v.release_date
DateOf(v) == Either(v, "published_at", "release_date")

HasDate(v) == DateOf(v) # Str("") /\ DateOf(v) # Num(0)

\* Object.keys(videos[0] || {}), which the error messages list
AvailableFields(videos) == IF videos = << >> THEN {} ELSE DOMAIN videos[1]

\* youtubeTools.js:115: .sort((a, b) => new Date(a.date) - new Date(b.date));
\* the dates of the model are days, k is the day of a pair
byDate(pairs) == SortByKey(pairs)

\* youtubeTools.js:101-124
plot_metric_vs_time(videos, args) ==
    LET field == args.arg
        pairs(valid) ==
            [i \in 1..Len(valid) |->
                [k |-> DateOf(valid[i]).n,
                 v |-> [date |-> DateOf(valid[i]), value |-> FieldValue(valid[i], field).v]]]
        values(sorted) == [i \in 1..Len(sorted) |-> sorted[i].v]
    IN  With(SelectSeq(videos, LAMBDA v : HasDate(v) /\ FieldValue(v, field).ok), LAMBDA valid :
        With(pairs(valid), LAMBDA mapped :
        With(byDate(mapped), LAMBDA sorted :
        With(values(sorted), LAMBDA withDates :
            IF withDates = << >>
            THEN WithValue(ErrorResult("no_valid_data", field), AvailableFields(videos))
            ELSE WithValue(ChartResult("metric_vs_time", field, Len(withDates)), withDates)))))

\* youtubeTools.js:163-192: values is a new array, sorted where it is
compute_stats_json(videos, args) ==
    LET field == args.arg
        med(values, k) == IF k % 2 = 0 THEN Half(values[k \div 2] + values[k \div 2 + 1])
                          ELSE Whole(values[k \div 2 + 1])
    IN  With(SelectSeq(videos, LAMBDA v : FieldValue(v, field).ok), LAMBDA kept :
        With(SortNumbers([i \in 1..Len(kept) |-> FieldValue(kept[i], field).v]), LAMBDA values :
            IF values = << >>
            THEN WithValue(ErrorResult("no_numeric_json", field), AvailableFields(videos))
            ELSE WithValue(Result("compute_stats_json", field, Len(values)),
                           Stats(Len(values), med(values, Len(values)), values[1],
                                 values[Len(values)], Sum(values)))))

\* variant: the selector is compared as it was given
lowerTrim_asGiven(s) == s

\* (args.selector || '').toLowerCase().trim() on the selectors of the model,
\* which are lower case and trimmed but for these
lowerTrim(s) ==
    CASE s = " Most Viewed " -> "most viewed"
      [] s = "FIRST" -> "first"
      [] OTHER -> s

ordinals ==
    [s \in {"first", "second", "third", "fourth", "fifth", "1st", "2nd", "3rd", "4th", "5th"} |->
        CASE s \in {"first", "1st"} -> 0
          [] s \in {"second", "2nd"} -> 1
          [] s \in {"third", "3rd"} -> 2
          [] s \in {"fourth", "4th"} -> 3
          [] OTHER -> 4]

\* sel.match(/^video\s+(\d+)$/) and /^\d+$/.test(sel), with the number read by parseInt
videoNum == [s \in {"video 0", "video 1", "video 2", "video 3", "video 4"} |->
                CASE s = "video 0" -> 0 [] s = "video 1" -> 1 [] s = "video 2" -> 2
                  [] s = "video 3" -> 3 [] OTHER -> 4]

plainNumber == [s \in {"0", "1", "2", "3", "4"} |->
                CASE s = "0" -> 0 [] s = "1" -> 1 [] s = "2" -> 2 [] s = "3" -> 3 [] OTHER -> 4]

\* (v.title || '').toLowerCase().includes(sel), over the titles and selectors
\* of the model
TitleIncludes(v, sel) ==
    LET title == IF "title" \in DOMAIN v THEN v["title"].s ELSE ""
    IN  \/ sel = ""
        \/ title = "A" /\ sel = "a"
        \/ title = "B" /\ sel = "b"
        \/ title = "C" /\ sel = "c"
        \/ title = "Last" /\ sel \in {"last", "a"}
        \/ title = "Most Viewed" /\ sel = "most viewed"
        \/ title = "Top 10" /\ sel \in {"0", "1"}

ViewCount(v) == IF IsNumeric(v, "view_count") THEN v["view_count"].n ELSE 0

\* index of the first element of a stable sort of the videos by view_count
FirstByViews(videos, descending) ==
    CHOOSE i \in 1..Len(videos) :
        \A j \in 1..Len(videos) :
            IF descending
            THEN ViewCount(videos[j]) < ViewCount(videos[i])
                 \/ (ViewCount(videos[j]) = ViewCount(videos[i]) /\ i <= j)
            ELSE ViewCount(videos[j]) > ViewCount(videos[i])
                 \/ (ViewCount(videos[j]) = ViewCount(videos[i]) /\ i <= j)

\* index (1-based) of the video play_video selects, 0 when it selects none
SelectVideo(videos, sel) ==
    LET at(k) == IF k \in 1..Len(videos) THEN k ELSE 0
        hits == { i \in 1..Len(videos) : TitleIncludes(videos[i], sel) }
    IN  CASE sel \in {"first", "1"} -> at(1)
          [] sel \in DOMAIN ordinals -> at(ordinals[sel] + 1)
          [] sel \in DOMAIN videoNum -> at(videoNum[sel])
          [] sel \in DOMAIN plainNumber /\ plainNumber[sel] - 1 >= 0 -> at(plainNumber[sel])
          [] sel \in {"last", "most recent"} -> at(Len(videos))
          [] sel = "most viewed" -> FirstByViews(videos, TRUE)
          [] sel = "least viewed" -> FirstByViews(videos, FALSE)
          [] OTHER -> IF hits = {} THEN 0 ELSE CHOOSE i \in hits : \A j \in hits : i <= j

play_video(videos, args) ==
    LET sel == IF args.arg = Undefined THEN "" ELSE lowerTrim(args.arg)
        k == SelectVideo(videos, sel)
    IN  IF k = 0 THEN ErrorResult("no_video", args.arg)
        ELSE ChartResult("play_video", videos[k]["title"].s, 1)

\* the value the image endpoint answers with (server/index.js:563)
GeneratedImage(prompt) ==
    [error |-> "", _chartType |-> "generated_image", imageData |-> "base64", _note |-> "",
     tool |-> "", key |-> prompt, count |-> 1, value |-> << >>]

\* the videos after executeYoutubeTool(toolName, args, channelData): play_video
\* sorts [...videos] for 'most viewed' and 'least viewed'
videosAfter(toolName, args, videos) ==
    LET sel == IF args.arg = Undefined THEN "" ELSE lowerTrim(args.arg)
        views == [i \in 1..Len(videos) |->
                     IF sel = "most viewed" THEN 0 - ViewCount(videos[i]) ELSE ViewCount(videos[i])]
    IN  IF toolName = "play_video" /\ args.type # "null" /\ sel \in {"most viewed", "least viewed"}
        THEN sortRows(videos, views).rows
        ELSE videos

\* variant: the guard blocks every tool
guarded_all(toolName) == TRUE

\* youtubeTools.js:91: the tools the 'no data loaded' guard blocks
guarded(toolName) == toolName # "generateImage"

\* executeYoutubeTool(toolName, args, channelData, anchorImage, generateImageFn);
\* Chat.js:508-509 always passes generateImage as generateImageFn
executeYoutubeTool(toolName, args, channelData, anchorImage) ==
    LET videos == IF channelData.set THEN channelData.videos ELSE << >>
    IN  IF videos = << >> /\ guarded(toolName)
        THEN Returned(ErrorResult("no_data", toolName))
        ELSE CASE toolName = "generateImage" ->
                    IF args.type = "null" THEN Threw ELSE Pending(args.arg, anchorImage)
               [] toolName = "plot_metric_vs_time" ->
                    IF args.type = "null" THEN Threw ELSE Returned(plot_metric_vs_time(videos, args))
               [] toolName = "play_video" ->
                    IF args.type = "null" THEN Threw ELSE Returned(play_video(videos, args))
               [] toolName = "compute_stats_json" ->
                    IF args.type = "null" THEN Threw ELSE Returned(compute_stats_json(videos, args))
               [] OTHER -> Returned(ErrorResult("unknown_tool", toolName))

(***************************************************************************)
(* services/openai.js: chatWithCsvTools and chatWithYoutubeTools           *)
(***************************************************************************)
\* a message of the messages array; result is the object whose JSON text is
\* the content of a role 'tool' message, tool_call_id = 0 when absent. The
\* content of the system message is kept as its identity directive and the
\* name it gives, that of the new user message as its context header followed
\* by the text; images counts the image parts placed in the message
Msg(role, content) ==
    [role |-> role, content |-> content, tool_calls |-> << >>, tool_call_id |-> 0,
     result |-> NoResult, header |-> "", directive |-> "", userName |-> "", images |-> 0]

AssistantCallMsg(content, calls) ==
    [Msg("assistant", content) EXCEPT !.tool_calls = calls]

\* variant: the tool message is pushed without tool_call_id
ToolMsg_noId(id, contentForApi) ==
    [Msg("tool", "") EXCEPT !.result = contentForApi]

ToolMsg(id, contentForApi) ==
    [Msg("tool", "") EXCEPT !.tool_call_id = id, !.result = contentForApi]

\* the history handleSend passes (Chat.js:486-488): roles 'user' and 'model'
SampleHistory == << [role |-> "user", content |-> "hi"], [role |-> "model", content |-> "hello"] >>

\* openai.js:44-45: the name of a [User: name] prefix of the message
extractUserNameFromMessage(msg) ==
    IF msg = "[User: Cy] prompt" THEN "Cy" ELSE ""

\* openai.js:52 and 57-59: match[1].trim() of the first match of the pattern
\* (an introduction phrase, white space, then a letter and up to fifty letters,
\* spaces, quotes or hyphens), "" when the text has no match
nameMatch(content) ==
    CASE content = "my name is Ann" -> "Ann"
      [] content = "call me Bob" -> "Bob"
      [] content = "call me J" -> "J"
      [] content = "hello, I'm Ava" -> "Ava"
      [] OTHER -> ""

\* name.length of the names above
nameLength(name) ==
    CASE name = "" -> 0
      [] name = "J" -> 1
      [] name = "Cy" -> 2
      [] OTHER -> 3

\* openai.js:50-64: scan from the newest message to the oldest
RECURSIVE extractUserNameFromHistory(_)
extractUserNameFromHistory(hist) ==
    IF hist = << >> THEN ""
    ELSE LET m == hist[Len(hist)]
             name == nameMatch(m.content)
         IN  IF m.role = "user" /\ m.content # "" /\ name # ""
                /\ nameLength(name) >= 2 /\ nameLength(name) <= 50
             THEN name
             ELSE extractUserNameFromHistory(SubSeq(hist, 1, Len(hist) - 1))

\* openai.js:160-168 and 264-272: the system message with its identity directive
systemMessage(newMsg, hist) ==
    LET fromMessage == extractUserNameFromMessage(newMsg)
        userName == IF fromMessage # "" THEN fromMessage ELSE extractUserNameFromHistory(hist)
    IN  IF userName # ""
        THEN [Msg("system", "instructions") EXCEPT !.directive = "use_name", !.userName = userName]
        ELSE [Msg("system", "instructions") EXCEPT !.directive = "ask_name"]

\* variant: the new user message is put before the history
baseMessages_userFirst(hist, newMsg, header) ==
    << systemMessage(newMsg, hist) >>
    \o << [Msg("user", newMsg) EXCEPT !.header = header] >>
    \o [i \in 1..Len(hist) |->
            Msg(IF hist[i].role = "user" THEN "user" ELSE "assistant", hist[i].content)]

\* openai.js:169-182 and 273-289: system message, mapped history, new user
\* message; header is "" when msgWithContext is the message itself
baseMessages(hist, newMsg, header) ==
    << systemMessage(newMsg, hist) >>
    \o [i \in 1..Len(hist) |->
            Msg(IF hist[i].role = "user" THEN "user" ELSE "assistant", hist[i].content)]
    \o << [Msg("user", newMsg) EXCEPT !.header = header] >>

\* variant: the result is serialised as it is
contentForApi_raw(result) == result

\* openai.js:333-347: what is serialised into the tool message
contentForApi(result) ==
    IF result._chartType = "generated_image" /\ result.imageData # ""
    THEN [result EXCEPT !.imageData = "[displayed above]", !._note = "image already displayed"]
    ELSE IF result._chartType = "play_video"
    THEN [result EXCEPT !._note = "video card already displayed"]
    ELSE result

\* Chat.js:505: const anchorImage = capturedImages[0]?.data
anchorImage(nImages) == IF nImages > 0 THEN "base64" ELSE Undefined

\* the executeFn handleSend passes to the orchestrator (Chat.js:508-509 and 539)
executeFn(m, name, args) ==
    IF m = "csv" THEN executeTool(name, args, sessionCsvRows.rows)
    ELSE executeYoutubeTool(name, args, sessionJsonData, anchorImage(turn.nImages))

\* the tool calls the model has requested in this turn, in request order
RECURSIVE Requested(_)
Requested(msgs) ==
    IF msgs = << >> THEN << >>
    ELSE Requested(SubSeq(msgs, 1, Len(msgs) - 1)) \o msgs[Len(msgs)].tool_calls

ToolMessages(msgs) == SelectSeq(msgs, LAMBDA m : m.role = "tool")

\* ---- the calls the simulated model requests ----
Call(name, payload) == [name |-> name, arguments |-> payload]

NonObjectPayloads == { Payload(k, Undefined) : k \in {"absent", "malformed", "null", "scalar"} }

ObjectPayloads(values) == { Payload("object", a) : a \in values \cup {Undefined} }

CsvCalls ==
    { Call(n, p) : n \in {"compute_column_stats", "get_value_counts", "get_top_tweets"},
                   p \in NonObjectPayloads
                         \cup ObjectPayloads({"Favorite Count", "favorite_count", "text", "nope"}) }
    \cup { Call("no_such_tool", p) : p \in {Payload("null", Undefined), Payload("object", "nope")} }

YoutubeCalls ==
    { Call("generateImage", p) : p \in NonObjectPayloads \cup ObjectPayloads({"a cat"}) }
    \cup { Call("plot_metric_vs_time", p) :
                p \in NonObjectPayloads \cup ObjectPayloads({"view_count", "title", "nope"}) }
    \cup { Call("play_video", p) :
                p \in NonObjectPayloads \cup ObjectPayloads({"4", "most viewed", "b", "zzz"}) }
    \cup { Call("compute_stats_json", p) :
                p \in NonObjectPayloads \cup ObjectPayloads({"view_count", "duration", "nope"}) }
    \cup { Call("no_such_tool", p) : p \in {Payload("null", Undefined), Payload("object", "nope")} }

\* a call that succeeds on the sample data, mixed with the call of the menu
Filler(m) ==
    IF m = "csv" THEN Call("compute_column_stats", Payload("object", "Favorite Count"))
    ELSE Call("play_video", Payload("object", "first"))

\* tool_calls of one response: 1..MaxCallsPerRound calls, each with a fresh id
CallLists(m, focus, issued) ==
    LET room == Min(MaxCallsPerRound, MaxTurnCalls - issued)
    IN  UNION { [1..k -> {focus, Filler(m)}] : k \in 1..room }

WithIds(calls, issued) ==
    [i \in 1..Len(calls) |->
        [id |-> issued + i, name |-> calls[i].name, arguments |-> calls[i].arguments]]

\* the outcome of the orchestrator: return { text, charts, toolCalls } or a raised Error
Returns(text, ch, tcs) == [status |-> "returned", text |-> text, charts |-> ch, toolCalls |-> tcs]
Raises(msg) == [status |-> "raised", text |-> msg, charts |-> << >>, toolCalls |-> << >>]
Running == [status |-> "running", text |-> "", charts |-> << >>, toolCalls |-> << >>]

\* an answer of the completion endpoint: kind is "error" (non-success status),
\* "empty" (no choices[0].message), "final" (no tool calls) or "calls"
Response(kind, content, calls) == [kind |-> kind, content |-> content, tool_calls |-> calls]
NoResponse == Response("none", "", << >>)

\* the locals of handleSend: the captured state and the routing computed from it
TurnRec(path, code, text, csvLoaded, csvAttached, jsonLoaded, nImages) ==
    [path |-> path, useCodeExecution |-> code, text |-> text, csvLoaded |-> csvLoaded,
     csvAttached |-> csvAttached, jsonLoaded |-> jsonLoaded, nImages |-> nImages]

NoTurn == TurnRec("none", FALSE, << >>, FALSE, FALSE, FALSE, 0)

\* the locals of the handler: let fullContent = '', toolCharts = [], toolCalls = []
\* (Chat.js:498-502); fullContent is kept as the sequence of the pieces appended
NoLocal == [fullContent |-> << >>, toolCharts |-> << >>, toolCalls |-> << >>, left |-> ""]

\* no service has been called on its own
NoDataset == [headers |-> << >>, rows |-> << >>]

NoGrid == [header |-> << >>, rows |-> << >>]

\* no dataset has been attached and no session selected (Chat.js:127, 132-134)
NullHeaders == [set |-> FALSE, names |-> << >>]
NoSummary == [set |-> FALSE, rows |-> 0, columns |-> << >>]
NoSlimCsv == [set |-> FALSE, columns |-> << >>]

\* no duration has been written
NoClip == [stage |-> "", producer |-> "", via |-> "", seconds |-> 0, duration |-> << >>,
           parsed |-> [ok |-> FALSE, v |-> 0]]

\* the server has received nothing
InitServer ==
    /\ clip = NoClip
    /\ users = << >>
    /\ requests = << >>

InitChat ==
    /\ displayed = << >>
    /\ loads = << >>
    /\ sessionCsvHeaders = NullHeaders
    /\ csvDataSummary = NoSummary
    /\ sessionSlimCsv = NoSlimCsv

InitSvc ==
    /\ csvGrid = NoGrid
    /\ csvText = << >>
    /\ dataset = NoDataset
    /\ step = 0
    /\ wire = << >>
    /\ buf = << >>
    /\ InitServer
    /\ InitChat

\* the arguments handleSend passes to an orchestrator in the turns of Spec
InitCtx ==
    /\ history = SampleHistory
    /\ newMessage = "prompt"

\* no handler body is running; at = "run" inside the try block of handleSend
InitHost(at) ==
    /\ hpc = at
    /\ abortRef = FALSE
    /\ body = << >>
    /\ events = << >>
    /\ local = NoLocal
    /\ persisted = << >>

\* a stored session is active and no send is in flight
InitStored ==
    /\ activeSessionId = 1
    /\ nSessions = 1
    /\ handlers = << >>

InitTurn ==
    /\ pc = "start"
    /\ round = 0
    /\ messages = << >>
    /\ sent = << >>
    /\ nRequests = 0
    /\ response = NoResponse
    /\ toolCallsList = << >>
    /\ idx = 1
    /\ toolCalls = << >>
    /\ charts = << >>
    /\ ret = Running

\* one turn, entered the way handleSend enters it (Chat.js:396-397, 505-540):
\* the CSV orchestrator with rows loaded, the YouTube one with no rows loaded and
\* channel JSON loaded or an image attached
Init ==
    /\ input = << >>
    /\ csvContext = FALSE
    /\ streaming = TRUE
    /\ mode \in {"csv", "youtube"}
    /\ IF mode = "csv"
       THEN /\ sessionCsvRows \in { [set |-> TRUE, rows |-> r] : r \in CsvDatasets }
            /\ sessionJsonData = NullJson
            /\ images = 0
            /\ menu \in CsvCalls
       ELSE /\ sessionCsvRows = NullData
            /\ \/ sessionJsonData = NullJson /\ images = 1
               \/ sessionJsonData \in { [set |-> TRUE, videos |-> v] : v \in ChannelDatasets }
                  /\ images = 0
            /\ menu \in YoutubeCalls
    /\ jsonContext = (sessionJsonData.set /\ sessionJsonData.videos # << >>)
    /\ turn = TurnRec(mode, FALSE, << "average" >>, sessionCsvRows.set, FALSE,
                      sessionJsonData.set, images)
    /\ InitTurn
    /\ InitCtx
    /\ InitSvc
    /\ InitHost("run")
    /\ InitStored

\* openai.js:156-158 (csvHeaders?.length, the headers Chat.js:277-278 sets with
\* the rows) and 259-261 (channelData?.videos?.length)
contextHeader ==
    IF mode = "csv" THEN (IF sessionCsvRows.set THEN "[CSV columns]" ELSE "")
    ELSE IF sessionJsonData.videos # << >> THEN "[YouTube channel JSON loaded]" ELSE ""

BuildContext ==
    /\ pc = "start"
    /\ messages' = baseMessages(history, newMessage, contextHeader)
    /\ pc' = "loop"
    /\ UNCHANGED << round, sent, nRequests, response, toolCallsList, idx, toolCalls, charts, ret,
                    mode, menu >>
    /\ UNCHANGED hostVars

\* openai.js:188-193 and 295-300: the loop condition holds and the request is sent
SendRequest ==
    /\ pc = "loop"
    /\ round < MaxRounds
    /\ sent' = messages
    /\ nRequests' = nRequests + 1
    /\ pc' = "await_model"
    /\ UNCHANGED << round, messages, response, toolCallsList, idx, toolCalls, charts, ret,
                    mode, menu >>
    /\ UNCHANGED hostVars

\* openai.js:234 and 356: the loop condition fails
LoopExit ==
    /\ pc = "loop"
    /\ round >= MaxRounds
    /\ ret' = Returns("", charts, toolCalls)
    /\ pc' = "done"
    /\ UNCHANGED << round, messages, sent, nRequests, response, toolCallsList, idx, toolCalls,
                    charts, mode, menu >>
    /\ UNCHANGED hostVars

\* what a non-success answer carries: the error property of its JSON body and
\* the status text, each "" when absent
ErrorReply(error, statusText) == [error |-> error, statusText |-> statusText]

ChatErrorReplies ==
    { ErrorReply("OpenAI request failed", "Internal Server Error"),
      ErrorReply("", "Internal Server Error"),
      ErrorReply("", "") }

\* variant: the message of the error ignores what the server answered
errorMessage_generic(reply, fallback) == fallback

\* openai.js:126-127, 195-196, 249-250: err.error || res.statusText || fallback
errorMessage(reply, fallback) ==
    IF reply.error # "" THEN reply.error
    ELSE IF reply.statusText # "" THEN reply.statusText
    ELSE fallback

\* openai.js:194-197: a non-success status
RespondNotOk ==
    /\ pc = "await_model"
    /\ \E reply \in ChatErrorReplies :
          /\ response' = Response("error", reply.error, << >>)
          /\ ret' = Raises(errorMessage(reply, "Chat request failed"))
    /\ pc' = "done"
    /\ UNCHANGED << round, messages, sent, nRequests, toolCallsList, idx, toolCalls, charts,
                    mode, menu >>
    /\ UNCHANGED hostVars

\* openai.js:199-201: a response without choices[0].message leaves the loop
RespondNoMessage ==
    /\ pc = "await_model"
    /\ response' = Response("empty", "", << >>)
    /\ ret' = Returns("", charts, toolCalls)
    /\ pc' = "done"
    /\ UNCHANGED << round, messages, sent, nRequests, toolCallsList, idx, toolCalls, charts,
                    mode, menu >>
    /\ UNCHANGED hostVars

\* variant: the content of the final response is dropped
finalText_dropped(content) == ""

\* openai.js:206-208: what is returned for a response without tool calls
finalText(content) == content

\* a response whose message requests no tool call; content "" stands for no content
RespondFinal ==
    /\ pc = "await_model"
    /\ \E content \in {"", "answer"} :
          /\ response' = Response("final", content, << >>)
          /\ ret' = Returns(finalText(content), charts, toolCalls)
    /\ pc' = "done"
    /\ UNCHANGED << round, messages, sent, nRequests, toolCallsList, idx, toolCalls, charts,
                    mode, menu >>
    /\ UNCHANGED hostVars

\* openai.js:210-214: the assistant message is pushed and the calls are executed
RespondToolCalls ==
    /\ pc = "await_model"
    /\ LET issued == Len(Requested(messages))
       IN  \E calls \in CallLists(mode, menu, issued) :
              /\ response' = Response("calls", "", WithIds(calls, issued))
              /\ toolCallsList' = WithIds(calls, issued)
              /\ messages' = Append(messages, AssistantCallMsg("", WithIds(calls, issued)))
    /\ idx' = 1
    /\ pc' = "tools"
    /\ UNCHANGED << round, sent, nRequests, toolCalls, charts, ret, mode, menu >>
    /\ UNCHANGED hostVars

\* variant: the loop over the calls is left after the first call
afterCall_first(i, n) == "loop"

\* where the orchestrator continues after the call at position i of n
afterCall(i, n) == IF i < n THEN "tools" ELSE "loop"

\* variant: every result is pushed to the charts
Record_allCharts(tc, args, result) ==
    /\ toolCalls' = Append(toolCalls, [name |-> tc.name, args |-> args, result |-> result])
    /\ charts' = Append(charts, result)
    /\ messages' = Append(messages,
                          ToolMsg(tc.id, IF mode = "youtube" THEN contentForApi(result) ELSE result))
    /\ idx' = idx + 1
    /\ pc' = afterCall(idx, Len(toolCallsList))
    /\ round' = IF afterCall(idx, Len(toolCallsList)) = "loop" THEN round + 1 ELSE round
    /\ UNCHANGED << sent, nRequests, response, toolCallsList, ret, mode, menu >>
    /\ UNCHANGED hostVars

\* openai.js:223-230 and 330-352: record the call and push the tool message
Record(tc, args, result) ==
    /\ toolCalls' = Append(toolCalls, [name |-> tc.name, args |-> args, result |-> result])
    /\ charts' = IF result._chartType # "" THEN Append(charts, result) ELSE charts
    /\ messages' = Append(messages,
                          ToolMsg(tc.id, IF mode = "youtube" THEN contentForApi(result) ELSE result))
    /\ idx' = idx + 1
    /\ pc' = afterCall(idx, Len(toolCallsList))
    /\ round' = IF afterCall(idx, Len(toolCallsList)) = "loop" THEN round + 1 ELSE round
    /\ UNCHANGED << sent, nRequests, response, toolCallsList, ret, mode, menu >>
    /\ UNCHANGED hostVars

\* openai.js:216-222 and 323-329: parse the arguments and call executeFn
ExecuteTool ==
    /\ pc = "tools"
    /\ idx <= Len(toolCallsList)
    /\ LET tc == toolCallsList[idx]
           args == parseArgs(tc.arguments)
           out == executeFn(mode, tc.name, args)
       IN  CASE out.outcome = "value" -> Record(tc, args, out.result)
             [] out.outcome = "throw" ->
                    /\ ret' = Raises("TypeError")
                    /\ pc' = "done"
                    /\ UNCHANGED << round, messages, sent, nRequests, response, toolCallsList,
                                    idx, toolCalls, charts, mode, menu >>
                    /\ UNCHANGED hostVars
             [] OTHER ->
                    /\ pc' = "await_image"
                    /\ UNCHANGED << round, messages, sent, nRequests, response, toolCallsList,
                                    idx, toolCalls, charts, ret, mode, menu >>
                    /\ UNCHANGED hostVars

\* openai.js:239-253, 329: the image endpoint answers and the awaited promise resolves
ImageResolves ==
    /\ pc = "await_image"
    /\ LET tc == toolCallsList[idx]
           args == parseArgs(tc.arguments)
       IN  Record(tc, args, GeneratedImage(args.arg))

\* openai.js:248-251 and server/index.js:559: a non-success status of the image
\* endpoint rejects the promise
ImageRejects ==
    /\ pc = "await_image"
    /\ ret' = Raises(errorMessage(ErrorReply("Image generation failed", "Internal Server Error"),
                                  "Image generation failed"))
    /\ pc' = "done"
    /\ UNCHANGED << round, messages, sent, nRequests, response, toolCallsList, idx, toolCalls,
                    charts, mode, menu >>
    /\ UNCHANGED hostVars

Next ==
    \/ BuildContext
    \/ SendRequest
    \/ LoopExit
    \/ RespondNotOk
    \/ RespondNoMessage
    \/ RespondFinal
    \/ RespondToolCalls
    \/ ExecuteTool
    \/ ImageResolves
    \/ ImageRejects

Spec == Init /\ [][Next]_vars

TypeOK ==
    /\ pc \in {"start", "loop", "await_model", "tools", "await_image", "done"}
    /\ round \in 0..MaxRounds
    /\ nRequests \in 0..MaxRounds

(***************************************************************************)
(* components/Chat.js: attachments and the mode selection of handleSend    *)
(***************************************************************************)
\* the words a message is made of; a text is a sequence of words separated by
\* single blanks, so a \b...\b alternative matches exactly a whole word, or two
\* adjacent words when the alternative spans a blank
Vocabulary == {"histogram", "distribution", "plot", "average", "views", "time", "series"}

Texts == UNION { [1..k -> Vocabulary] : k \in 0..MaxWords }

regexTest(text, words, pairs) ==
    \E i \in 1..Len(text) :
        \/ text[i] \in words
        \/ i < Len(text) /\ << text[i], text[i + 1] >> \in pairs

\* Chat.js:386 /\b(regression|scatter|histogram|seaborn|matplotlib|numpy|time.?series|heatmap|
\* box.?plot|violin|distribut|linear.?model|logistic|forecast|trend.?line)\b/i
PYTHON_ONLY_KEYWORDS(text) ==
    regexTest(text,
              {"regression", "scatter", "histogram", "seaborn", "matplotlib", "numpy",
               "timeseries", "heatmap", "boxplot", "violin", "distribut", "linearmodel",
               "logistic", "forecast", "trendline"},
              { << "time", "series" >>, << "box", "plot" >>, << "linear", "model" >>,
                << "trend", "line" >> })

\* openai.js:6 /\b(plot|chart|graph|analyz|statistic|regression|correlat|histogram|visualiz|
\* calculat|compute|run code|write code|execute|pandas|numpy|matplotlib|csv|data)\b/i
CODE_KEYWORDS(text) ==
    regexTest(text,
              {"plot", "chart", "graph", "analyz", "statistic", "regression", "correlat",
               "histogram", "visualiz", "calculat", "compute", "execute", "pandas", "numpy",
               "matplotlib", "csv", "data"},
              { << "run", "code" >>, << "write", "code" >> })

\* Chat.js:387-398
wantPythonOnly(text) == PYTHON_ONLY_KEYWORDS(text)

wantCode(text, rows) == CODE_KEYWORDS(text) /\ ~rows.set

\* variant: the CSV condition without the test on the loaded rows
useTools_anyRows(text, rows, capturedCsv) ==
    ~wantPythonOnly(text) /\ ~wantCode(text, rows) /\ ~capturedCsv

useTools(text, rows, capturedCsv) ==
    rows.set /\ ~wantPythonOnly(text) /\ ~wantCode(text, rows) /\ ~capturedCsv

\* variant: the YouTube condition without the test on the loaded rows
useYoutubeTools_anyCsv(rows, json, nImages) == json.set \/ nImages > 0

useYoutubeTools(rows, json, nImages) == (json.set \/ nImages > 0) /\ ~rows.set

\* variant: code execution requested for the Python-only keywords alone
useCodeExecution_pythonOnly(text, rows) == wantPythonOnly(text)

useCodeExecution(text, rows) == wantPythonOnly(text) \/ wantCode(text, rows)

\* Chat.js:505, 532, 558: the branch handleSend takes
path(text, rows, capturedCsv, json, nImages) ==
    IF useYoutubeTools(rows, json, nImages) THEN "youtube"
    ELSE IF useTools(text, rows, capturedCsv) THEN "csv"
    ELSE "stream"

InitSend ==
    /\ input = << >>
    /\ images = 0
    /\ csvContext = FALSE
    /\ sessionCsvRows = NullData
    /\ sessionJsonData = NullJson
    /\ jsonContext = FALSE
    /\ streaming = FALSE
    /\ turn = NoTurn
    /\ mode = "none"
    /\ menu = Filler("csv")
    /\ InitTurn
    /\ InitCtx
    /\ InitSvc
    /\ InitHost("idle")
    /\ InitStored

\* Chat.js:891, 894: the text box is disabled while a turn is in flight
TypeText ==
    /\ ~streaming
    /\ \E text \in Texts : input' = text
    /\ UNCHANGED << images, csvContext, sessionCsvRows, sessionJsonData, jsonContext,
                    streaming, turn >>
    /\ UNCHANGED idleVars

\* Chat.js:268-282 and 315-327: a CSV file with at least one non-blank line
AttachCsv ==
    /\ \E rows \in CsvDatasets : sessionCsvRows' = [set |-> TRUE, rows |-> rows]
    /\ csvContext' = TRUE
    /\ UNCHANGED << input, images, sessionJsonData, jsonContext, streaming, turn >>
    /\ UNCHANGED idleVars

\* Chat.js:257-266 and 304-313: a JSON file whose videos property is an array
AttachJson ==
    /\ \E videos \in ChannelDatasets : sessionJsonData' = [set |-> TRUE, videos |-> videos]
    /\ jsonContext' = TRUE
    /\ UNCHANGED << input, images, csvContext, sessionCsvRows, streaming, turn >>
    /\ UNCHANGED idleVars

\* Chat.js:284-293, 328-337, 342-361
AttachImage ==
    /\ images < MaxImages
    /\ images' = images + 1
    /\ UNCHANGED << input, csvContext, sessionCsvRows, sessionJsonData, jsonContext,
                    streaming, turn >>
    /\ UNCHANGED idleVars

\* Chat.js:841, 850, 618: the remove buttons of the chips and the previews
RemoveCsvChip ==
    /\ csvContext
    /\ csvContext' = FALSE
    /\ UNCHANGED << input, images, sessionCsvRows, sessionJsonData, jsonContext, streaming, turn >>
    /\ UNCHANGED idleVars

RemoveJsonChip ==
    /\ jsonContext
    /\ jsonContext' = FALSE
    /\ sessionJsonData' = NullJson
    /\ UNCHANGED << input, images, csvContext, sessionCsvRows, streaming, turn >>
    /\ UNCHANGED idleVars

removeImage ==
    /\ images > 0
    /\ images' = images - 1
    /\ UNCHANGED << input, csvContext, sessionCsvRows, sessionJsonData, jsonContext,
                    streaming, turn >>
    /\ UNCHANGED idleVars

\* Chat.js:195-205
handleNewChat ==
    /\ input' = << >>
    /\ images' = 0
    /\ csvContext' = FALSE
    /\ sessionCsvRows' = NullData
    /\ jsonContext' = FALSE
    /\ sessionJsonData' = NullJson
    /\ UNCHANGED << streaming, turn >>
    /\ UNCHANGED idleVars

\* Chat.js:369-469: the guard, the routing and the state the send clears
handleSend ==
    /\ ~((input = << >> /\ images = 0 /\ ~csvContext /\ ~jsonContext) \/ streaming)
    /\ turn' = TurnRec(path(input, sessionCsvRows, csvContext, sessionJsonData, images),
                       useCodeExecution(input, sessionCsvRows),
                       input, sessionCsvRows.set, csvContext, sessionJsonData.set, images)
    /\ input' = << >>
    /\ images' = 0
    /\ csvContext' = FALSE
    /\ jsonContext' = IF sessionJsonData.set /\ sessionJsonData.videos # << >>
                      THEN jsonContext ELSE FALSE
    /\ streaming' = TRUE
    /\ UNCHANGED << sessionCsvRows, sessionJsonData >>
    /\ UNCHANGED idleVars

\* Chat.js:581-616: the chosen path has ended and the handler returns
FinishTurn ==
    /\ streaming
    /\ streaming' = FALSE
    /\ turn' = NoTurn
    /\ UNCHANGED << input, images, csvContext, sessionCsvRows, sessionJsonData, jsonContext >>
    /\ UNCHANGED idleVars

NextSend ==
    \/ TypeText
    \/ AttachCsv
    \/ AttachJson
    \/ AttachImage
    \/ RemoveCsvChip
    \/ RemoveJsonChip
    \/ removeImage
    \/ handleNewChat
    \/ handleSend
    \/ FinishTurn

SpecSend == InitSend /\ [][NextSend]_vars

(***************************************************************************)
(* components/Chat.js and server/index.js: stored messages, and send       *)
(* events while a session is being created                                 *)
(***************************************************************************)
\* the body of the request saveMessage(sessionId, role, content, imageData,
\* charts, toolCalls, ...) posts to /api/messages: role, content and the
\* optional charts and toolCalls of the stored message shape
saveMessage(sessionId, role, content, imageData, ch, tcs) ==
    [session_id |-> sessionId, role |-> role, content |-> content, imageData |-> 0,
     charts |-> ch, toolCalls |-> tcs]

\* server/index.js:576-595: the message pushed to the session's messages
StoredMsg(req) ==
    [session |-> req.session_id, role |-> req.role, content |-> req.content,
     imageData |-> req.imageData, charts |-> req.charts, toolCalls |-> req.toolCalls]

\* Chat.js:447: the text shown in the bubble and stored
userContent(text, nImages, jsonChip) ==
    IF text # << >> THEN text
    ELSE IF nImages > 0 THEN << "(Image)" >>
    ELSE IF jsonChip THEN << "(JSON attached)" >>
    ELSE << "(CSV attached)" >>

\* Chat.js:371: the guard of handleSend on the state its closure holds
canSend ==
    ~((input = << >> /\ images = 0 /\ ~csvContext /\ ~jsonContext)
      \/ streaming \/ activeSessionId < 0)

\* Chat.js:386-398: the locals handleSend computes from the state of its closure
Closure ==
    TurnRec(path(input, sessionCsvRows, csvContext, sessionJsonData, images),
            useCodeExecution(input, sessionCsvRows),
            input, sessionCsvRows.set, csvContext, sessionJsonData.set, images)

\* a handleSend invocation: where it waits, its session and what it captured
Handler(stage, sessionId, closure, jsonChip) ==
    [stage |-> stage, sessionId |-> sessionId, closure |-> closure, jsonChip |-> jsonChip]

\* Chat.js:461-481: the state updates of handleSend up to the call of saveMessage
startTurn(closure) ==
    /\ turn' = closure
    /\ input' = << >>
    /\ images' = 0
    /\ csvContext' = FALSE
    /\ jsonContext' = IF sessionJsonData.set /\ sessionJsonData.videos # << >>
                      THEN jsonContext ELSE FALSE
    /\ streaming' = TRUE
    /\ UNCHANGED << sessionCsvRows, sessionJsonData >>

MaxSends == 2

RaceTexts == { << "average" >>, << "plot", "views" >> }

InitRace ==
    /\ input \in RaceTexts
    /\ images \in {0, 1}
    /\ csvContext = FALSE
    /\ sessionCsvRows \in {NullData, [set |-> TRUE, rows |-> SampleRows]}
    /\ sessionJsonData = NullJson
    /\ jsonContext = FALSE
    /\ streaming = FALSE
    /\ turn = NoTurn
    /\ mode = "none"
    /\ menu = Filler("csv")
    /\ InitTurn
    /\ InitCtx
    /\ InitSvc
    /\ InitHost("idle")
    /\ activeSessionId \in {0, 1}
    /\ nSessions = activeSessionId
    /\ handlers = << >>

\* Chat.js:892, 902 and 369-382: Enter or the Send button; with the pending
\* session 'new' the handler first awaits createSession, otherwise it runs up
\* to the call of saveMessage
SendEvent ==
    /\ Len(handlers) < MaxSends
    /\ canSend
    /\ IF activeSessionId = 0
       THEN /\ nSessions' = nSessions + 1
            /\ handlers' = Append(handlers,
                                  Handler("createSession", nSessions + 1, Closure, jsonContext))
            /\ UNCHANGED << uiVars, activeSessionId >>
       ELSE /\ handlers' = Append(handlers,
                                  Handler("saveUser", activeSessionId, Closure, jsonContext))
            /\ startTurn(Closure)
            /\ UNCHANGED << activeSessionId, nSessions >>
    /\ UNCHANGED << fcVars, ctxVars, svcVars, turnVars, persisted >>

\* Chat.js:377-481: createSession has answered; the handler goes on with the
\* values of its closure
createSessionResolves ==
    \E h \in 1..Len(handlers) :
        /\ handlers[h].stage = "createSession"
        /\ activeSessionId' = handlers[h].sessionId
        /\ startTurn(handlers[h].closure)
        /\ handlers' = [handlers EXCEPT ![h].stage = "saveUser"]
        /\ UNCHANGED << fcVars, ctxVars, svcVars, turnVars, persisted, nSessions >>

\* Chat.js:472-560 and server/index.js:576-595: the user message is stored
\* and the handler enters the branch of its mode
UserMessageSaved ==
    \E h \in 1..Len(handlers) :
        /\ handlers[h].stage = "saveUser"
        /\ persisted' = Append(persisted,
               StoredMsg(saveMessage(handlers[h].sessionId, "user",
                                     userContent(handlers[h].closure.text,
                                                 handlers[h].closure.nImages,
                                                 handlers[h].jsonChip),
                                     handlers[h].closure.nImages, << >>, << >>)))
        /\ handlers' = [handlers EXCEPT ![h].stage = "reply"]
        /\ UNCHANGED << uiVars, fcVars, ctxVars, svcVars, turnVars, activeSessionId, nSessions >>

\* Chat.js:504-608: the branch has ended, by an answer or by an error, and the
\* handler calls saveMessage for the model message
ReplyEnds ==
    \E h \in 1..Len(handlers) :
        /\ handlers[h].stage = "reply"
        /\ handlers' = [handlers EXCEPT ![h].stage = "saveModel"]
        /\ UNCHANGED << uiVars, fcVars, ctxVars, svcVars, turnVars, persisted, activeSessionId, nSessions >>

\* Chat.js:599-616 and server/index.js:576-595: the model message is stored
\* and the handler ends with setStreaming(false)
ModelMessageSaved ==
    \E h \in 1..Len(handlers) :
        /\ handlers[h].stage = "saveModel"
        /\ persisted' = Append(persisted,
               StoredMsg(saveMessage(handlers[h].sessionId, "model", << "answer" >>,
                                     0, << >>, << >>)))
        /\ handlers' = [handlers EXCEPT ![h].stage = "done"]
        /\ streaming' = FALSE
        /\ UNCHANGED << input, images, csvContext, sessionCsvRows, sessionJsonData,
                        jsonContext, turn >>
        /\ UNCHANGED << fcVars, ctxVars, svcVars, turnVars, activeSessionId, nSessions >>

NextRace ==
    \/ SendEvent
    \/ createSessionResolves
    \/ UserMessageSaved
    \/ ReplyEnds
    \/ ModelMessageSaved

SpecRace == InitRace /\ [][NextRace]_vars

(***************************************************************************)
(* components/Chat.js: the body of handleSend, with streamChat of          *)
(* services/openai.js on the streaming path                                *)
(***************************************************************************)
MaxFrames == 3
MaxChunk == 2

\* A line of the streaming response (server/index.js:518-529):
\*   "text"       data: {"type":"text","text":...}, text "" when it is empty
\*   "other"      data: with a JSON value of another type
\*   "malformed"  data: followed by text JSON.parse rejects
\*   "blank"      a line that does not start with "data: "
\*   "done"       data: [DONE]
Frame(kind, text) == [kind |-> kind, text |-> text]

Frames ==
    { Frame("text", t) : t \in {"a", "b", ""} }
    \cup { Frame(k, "") : k \in {"other", "malformed", "blank", "done"} }

\* what one reader.read() completes in the buffer: some whole lines
Chunks == UNION { [1..k -> Frames] : k \in 1..MaxChunk }

TextEvent(text) == [type |-> "text", text |-> text]

\* variant: the sentinel is not recognised
isDone_never(f) == FALSE

\* openai.js:141: if (data === '[DONE]') return
isDone(f) == f.kind = "done"

\* openai.js:139-146: the line is a data line whose JSON has type 'text' and a
\* non-empty text
yields(f) == f.kind = "text" /\ f.text # ""

\* the for await loop of handleSend over streamChat: the events yielded, the
\* content appended, and how the loop was left: "" while it runs, "return" at
\* the sentinel, "break" at the abort flag, "end" at the end of the body
Loop(ev, content, left) == [events |-> ev, content |-> content, left |-> left]

\* variant: the chunk is appended before the flag is looked at
applyChunk_late(st, text, abort) ==
    IF abort THEN [st EXCEPT !.content = Append(@, text), !.left = "break"]
    ELSE [st EXCEPT !.content = Append(@, text)]

\* Chat.js:561-567: if (abortRef.current) break; fullContent += chunk.text
applyChunk(st, text, abort) ==
    IF abort THEN [st EXCEPT !.left = "break"]
    ELSE [st EXCEPT !.content = Append(@, text)]

\* openai.js:138-147: one line of the buffer
line(st, f, abort) ==
    IF st.left # "" \/ f.kind = "blank" THEN st
    ELSE IF isDone(f) THEN [st EXCEPT !.left = "return"]
    ELSE IF yields(f)
         THEN applyChunk([st EXCEPT !.events = Append(@, TextEvent(f.text))], f.text, abort)
         ELSE st

RECURSIVE lines(_, _, _)
lines(st, chunk, abort) ==
    IF chunk = << >> THEN st
    ELSE lines(line(st, Head(chunk), abort), Tail(chunk), abort)

\* Chat.js:581-587: fullContent = `Error: ${err.message}`
caught(loc, msg) == [loc EXCEPT !.fullContent = << "Error: ", msg >>]

\* a text as the sequence of its pieces
piece(text) == IF text = "" THEN << >> ELSE << text >>

\* Chat.js:517-519 and 541-543: the value the orchestrator returned
returned(loc, r) ==
    [loc EXCEPT !.fullContent = piece(r.text), !.toolCharts = r.charts, !.toolCalls = r.toolCalls]

\* the turns of SpecTurn: what is loaded or attached, and the text
BodyTexts == { << "average" >>, << "histogram" >> }

Loaded(rows, json, nImages) == [rows |-> rows, json |-> json, nImages |-> nImages]

BodyCases ==
    { Loaded([set |-> TRUE, rows |-> SampleRows], NullJson, 0),
      Loaded(NullData, [set |-> TRUE, videos |-> SampleVideos], 0),
      Loaded(NullData, NullJson, 1),
      Loaded(NullData, NullJson, 0) }

BodyCalls(m) ==
    IF m = "csv"
    THEN { Call("get_value_counts", Payload("object", "text")),
           Call("compute_column_stats", Payload("null", Undefined)) }
    ELSE IF m = "youtube"
    THEN { Call("generateImage", Payload("object", "a cat")),
           Call("play_video", Payload("object", "most viewed")) }
    ELSE { Filler("csv") }

\* handleSend has run up to the call of saveMessage for the user message
\* (Chat.js:369-481) on a stored session
InitBody ==
    /\ \E text \in BodyTexts, c \in BodyCases :
          /\ sessionCsvRows = c.rows
          /\ sessionJsonData = c.json
          /\ turn = TurnRec(path(text, c.rows, FALSE, c.json, c.nImages),
                            useCodeExecution(text, c.rows),
                            text, c.rows.set, FALSE, c.json.set, c.nImages)
    /\ input = << >>
    /\ images = 0
    /\ csvContext = FALSE
    /\ jsonContext = sessionJsonData.set
    /\ streaming = TRUE
    /\ mode = turn.path
    /\ menu \in BodyCalls(mode)
    /\ pc = "off"
    /\ round = 0
    /\ messages = << >>
    /\ sent = << >>
    /\ nRequests = 0
    /\ response = NoResponse
    /\ toolCallsList = << >>
    /\ idx = 1
    /\ toolCalls = << >>
    /\ charts = << >>
    /\ ret = Running
    /\ InitCtx
    /\ InitSvc
    /\ hpc = "saveUser"
    /\ abortRef \in BOOLEAN
    /\ body = << >>
    /\ events = << >>
    /\ local = NoLocal
    /\ persisted = << >>
    /\ InitStored

\* Chat.js:363-365 and 896-899: the Stop button, shown while streaming
handleStop ==
    /\ streaming
    /\ abortRef' = TRUE
    /\ UNCHANGED << uiVars, fcVars, ctxVars, svcVars, hpc, body, events, local, persisted, raceVars >>

\* Chat.js:472-560 and server/index.js:576-595: the user message is stored, the
\* handler resets the flag and its locals and calls the function of its mode
Dispatch ==
    /\ hpc = "saveUser"
    /\ persisted' = Append(persisted,
           StoredMsg(saveMessage(activeSessionId, "user",
                                 userContent(turn.text, turn.nImages, jsonContext),
                                 turn.nImages, << >>, << >>)))
    /\ abortRef' = FALSE
    /\ local' = NoLocal
    /\ IF turn.path = "stream"
       THEN /\ hpc' = "fetch"
            /\ nRequests' = nRequests + 1
            /\ pc' = pc
       ELSE /\ hpc' = "run"
            /\ nRequests' = nRequests
            /\ pc' = "start"
    /\ UNCHANGED << mode, menu, round, messages, sent, response, toolCallsList, idx, toolCalls,
                    charts, ret >>
    /\ UNCHANGED << uiVars, ctxVars, svcVars, body, events, raceVars >>

\* Chat.js:510-557 and 581-587: the orchestrator has returned or raised
Settle ==
    /\ hpc = "run"
    /\ pc = "done"
    /\ local' = IF ret.status = "returned" THEN returned(local, ret) ELSE caught(local, ret.text)
    /\ hpc' = "saveModel"
    /\ UNCHANGED << uiVars, fcVars, ctxVars, svcVars, abortRef, body, events, persisted, raceVars >>

\* openai.js:125-128 and Chat.js:581-587: the streaming request is refused
StreamRefused ==
    /\ hpc = "fetch"
    /\ \E reply \in ChatErrorReplies :
          /\ response' = Response("error", reply.error, << >>)
          /\ ret' = Raises(errorMessage(reply, "Chat request failed"))
          /\ local' = caught(local, errorMessage(reply, "Chat request failed"))
    /\ hpc' = "saveModel"
    /\ UNCHANGED << mode, menu, pc, round, messages, sent, nRequests, toolCallsList, idx,
                    toolCalls, charts >>
    /\ UNCHANGED << uiVars, ctxVars, svcVars, abortRef, body, events, persisted, raceVars >>

\* openai.js:129-131: the response is a success and its body is read
StreamOpens ==
    /\ hpc = "fetch"
    /\ hpc' = "read"
    /\ UNCHANGED << uiVars, fcVars, ctxVars, svcVars, abortRef, body, events, local, persisted, raceVars >>

\* openai.js:133-147 and Chat.js:560-579: a read completes some lines; each
\* event yielded is taken by the loop of handleSend before the next line
StreamChunk ==
    /\ hpc = "read"
    /\ \E chunk \in Chunks :
          /\ Len(body) + Len(chunk) <= MaxFrames
          /\ body' = body \o chunk
          /\ LET st == lines(Loop(events, local.fullContent, ""), chunk, abortRef)
             IN  /\ events' = st.events
                 /\ local' = [local EXCEPT !.fullContent = st.content, !.left = st.left]
                 /\ hpc' = IF st.left = "" THEN "read" ELSE "saveModel"
    /\ UNCHANGED << uiVars, fcVars, ctxVars, svcVars, abortRef, persisted, raceVars >>

\* openai.js:133-134: the body ends without the sentinel
StreamEnds ==
    /\ hpc = "read"
    /\ local' = [local EXCEPT !.left = "end"]
    /\ hpc' = "saveModel"
    /\ UNCHANGED << uiVars, fcVars, ctxVars, svcVars, abortRef, body, events, persisted, raceVars >>

\* variant: the handler ends without storing the model message
PersistReply_unsaved ==
    /\ hpc = "saveModel"
    /\ streaming' = FALSE
    /\ hpc' = "idle"
    /\ UNCHANGED << input, images, csvContext, sessionCsvRows, sessionJsonData, jsonContext, turn >>
    /\ UNCHANGED << fcVars, ctxVars, svcVars, abortRef, body, events, local, persisted, raceVars >>

\* Chat.js:595-616 and server/index.js:576-595: the model message is stored and
\* the handler ends
PersistReply ==
    /\ hpc = "saveModel"
    /\ persisted' = Append(persisted,
           StoredMsg(saveMessage(activeSessionId, "model", local.fullContent, 0,
                                 local.toolCharts, local.toolCalls)))
    /\ streaming' = FALSE
    /\ hpc' = "idle"
    /\ UNCHANGED << input, images, csvContext, sessionCsvRows, sessionJsonData, jsonContext, turn >>
    /\ UNCHANGED << fcVars, ctxVars, svcVars, abortRef, body, events, local, raceVars >>

NextTurn ==
    \/ handleStop
    \/ Dispatch
    \/ Settle
    \/ StreamRefused
    \/ StreamOpens
    \/ StreamChunk
    \/ StreamEnds
    \/ PersistReply
    \/ Next

SpecTurn == InitBody /\ [][NextTurn]_vars

(***************************************************************************)
(* services/openai.js: the system message over histories and messages      *)
(***************************************************************************)
MaxHistory == 2

\* contents of prior turns: with and without an introduction phrase, one whose
\* phrase is followed by a single letter, and the empty content
HistoryContents ==
    {"hi", "hello", "my name is Ann", "call me Bob", "call me J", "hello, I'm Ava", ""}

HistoryMessages == [role : {"user", "model"}, content : HistoryContents]

Histories == UNION { [1..n -> HistoryMessages] : n \in 0..MaxHistory }

\* promptForModel: a plain prompt, one under a [User: name] prefix, and one that
\* holds an introduction phrase
NewMessages == {"prompt", "[User: Cy] prompt", "my name is Dan"}

\* an orchestrator is called with any of the histories and messages
InitContext ==
    /\ input = << >>
    /\ csvContext = FALSE
    /\ streaming = TRUE
    /\ mode \in {"csv", "youtube"}
    /\ IF mode = "csv"
       THEN /\ sessionCsvRows = [set |-> TRUE, rows |-> SampleRows]
            /\ sessionJsonData = NullJson
            /\ menu = Filler("csv")
       ELSE /\ sessionCsvRows = NullData
            /\ sessionJsonData = [set |-> TRUE, videos |-> SampleVideos]
            /\ menu = Filler("youtube")
    /\ images = 0
    /\ jsonContext = sessionJsonData.set
    /\ turn = TurnRec(mode, FALSE, << "average" >>, sessionCsvRows.set, FALSE,
                      sessionJsonData.set, images)
    /\ InitTurn
    /\ history \in Histories
    /\ newMessage \in NewMessages
    /\ InitSvc
    /\ InitHost("run")
    /\ InitStored

SpecContext == InitContext /\ [][BuildContext]_vars

(***************************************************************************)
(* services/youtubeTools.js: play_video over channels and selectors        *)
(***************************************************************************)
PlayChannels == { << >>, SubSeq(SampleVideos, 1, 2), SampleVideos, TitledVideos }

PlaySelectors ==
    {"first", "1", "FIRST", "second", "3rd", "fifth", "video 2", "video 4", "video 0", "2", "4",
     "0", "last", "most recent", "most viewed", " Most Viewed ", "least viewed", "b", "zzz", ""}

\* the model calls play_video with any of the selectors on any of the channels
InitPlay ==
    /\ input = << >>
    /\ csvContext = FALSE
    /\ streaming = TRUE
    /\ mode = "youtube"
    /\ sessionCsvRows = NullData
    /\ sessionJsonData \in { [set |-> TRUE, videos |-> v] : v \in PlayChannels }
    /\ menu \in { Call("play_video", Payload("object", sel)) : sel \in PlaySelectors }
    /\ images = 0
    /\ jsonContext = TRUE
    /\ turn = TurnRec(mode, FALSE, << "average" >>, FALSE, FALSE, TRUE, 0)
    /\ InitTurn
    /\ InitCtx
    /\ InitSvc
    /\ InitHost("run")
    /\ InitStored

\* youtubeTools.js:89-161: executeYoutubeTool('play_video', args, channelData)
PlayVideo ==
    /\ pc = "start"
    /\ LET args == parseArgs(menu.arguments)
       IN  toolCalls' = << [name |-> menu.name, args |-> args,
                            result |-> executeFn(mode, menu.name, args).result] >>
    /\ pc' = "done"
    /\ UNCHANGED << round, messages, sent, nRequests, response, toolCallsList, idx, charts, ret,
                    mode, menu >>
    /\ UNCHANGED hostVars

SpecPlay == InitPlay /\ [][PlayVideo]_vars

(***************************************************************************)
(* Properties of the function-calling turn (specification Spec)            *)
(***************************************************************************)
\* the responses of this turn that requested tool calls
CallRounds(msgs) == Len(SelectSeq(msgs, LAMBDA m : m.tool_calls # << >>))

\* every response received so far requested at least one tool call
OnlyCallResponses == nRequests > 0 /\ CallRounds(messages) = nRequests

\* C1: at most 5 completion requests are sent in a turn, and when every response
\* requests at least one tool call the orchestrator returns (does not raise)
\* after exactly 5 rounds with text "" and at least 5 tool call records,
\* together with the charts collected
C1_RoundBound ==
    /\ nRequests <= MaxRounds
    /\ (pc = "done" /\ OnlyCallResponses) =>
            /\ ret.status = "returned"
            /\ ret.text = ""
            /\ nRequests = MaxRounds
            /\ Len(ret.toolCalls) >= MaxRounds
            /\ ret.toolCalls = toolCalls
            /\ ret.charts = charts

\* C2: the first response without tool calls ends the turn at once: its content
\* is the returned text, the records and charts of the earlier rounds are
\* returned with it, and nothing was requested or executed after it
C2_FinalResponseEndsTurn ==
    (pc = "done" /\ response.kind \in {"final", "empty"}) =>
        /\ ret = Returns(response.content, charts, toolCalls)
        /\ messages = sent
        /\ nRequests = CallRounds(messages) + 1
        /\ Len(toolCalls) = Len(Requested(messages))

C2_Witness ==
    /\ pc = "done"
    /\ response.kind = "final"
    /\ response.content = "answer"
    /\ Len(ret.toolCalls) >= 2
    /\ ret.charts # << >>

\* the calls whose execution has ended, by returning or by raising
Invoked ==
    Len(Requested(messages)) - Len(toolCallsList) + (idx - 1)
    + (IF ret.status = "raised" /\ ret.text \in {"TypeError", "Image generation failed"}
       THEN 1 ELSE 0)

\* C3: every tool call executed is appended as exactly one record {name, args,
\* result} in request order, whether the tool succeeds or fails, a failing
\* image generation included
C3_EveryCallRecorded ==
    pc # "await_image" =>
        /\ Len(toolCalls) = Invoked
        /\ \A k \in 1..Len(toolCalls) :
              /\ toolCalls[k].name = Requested(messages)[k].name
              /\ toolCalls[k].args = parseArgs(Requested(messages)[k].arguments)

\* C4: in every completion request each assistant message with tool_calls is
\* followed at once by one tool message per call, in call order, echoing the
\* call's id, and every tool message belongs to such a block
C4_ToolMessagesPaired ==
    /\ \A i \in 1..Len(sent) :
          sent[i].tool_calls # << >> =>
              LET n == Len(sent[i].tool_calls)
              IN  /\ sent[i].role = "assistant"
                  /\ i + n <= Len(sent)
                  /\ \A j \in 1..n :
                        /\ sent[i + j].role = "tool"
                        /\ sent[i + j].tool_call_id = sent[i].tool_calls[j].id
                  /\ (i + n < Len(sent) => sent[i + n + 1].role # "tool")
    /\ \A p \in 1..Len(sent) :
          sent[p].role = "tool" =>
              \E i \in 1..(p - 1) :
                  /\ sent[i].tool_calls # << >>
                  /\ p - i <= Len(sent[i].tool_calls)

C4_Witness ==
    /\ nRequests >= 3
    /\ \E i \in 1..Len(sent) : Len(sent[i].tool_calls) = 2
    /\ \E i \in 1..Len(sent) : Len(sent[i].tool_calls) = 1

\* C5: a completion request is sent only when every call requested so far has
\* completed and its tool message is in the message sequence, also for the
\* asynchronous generateImage and for several calls in one round
C5_Barrier ==
    [][ nRequests' > nRequests =>
            /\ pc # "await_image"
            /\ idx > Len(toolCallsList)
            /\ Len(toolCalls) = Len(Requested(messages))
            /\ Len(ToolMessages(messages')) = Len(Requested(messages'))
            /\ sent' = messages ]_vars

C5_Witness ==
    /\ nRequests >= 2
    /\ pc = "await_model"
    /\ \E i \in 1..Len(sent) : Len(sent[i].tool_calls) = 2
    /\ \E k \in 1..Len(toolCalls) : toolCalls[k].result._chartType = "generated_image"

\* C6: a call whose arguments payload is absent or is not a well-formed JSON
\* object is invoked with the empty argument mapping and recorded, and no
\* exception escapes the orchestrator because of an arguments payload
C6_BadPayloadIsEmptyArgs ==
    /\ \A k \in 1..Len(toolCalls) :
          Requested(messages)[k].arguments.kind # "object" => toolCalls[k].args = EmptyArgs
    /\ ~(ret.status = "raised" /\ ret.text = "TypeError")

\* an argument that names no column, no field and no video of the sample data
Unresolvable == {"nope", "zzz", "4"}

MissingOrUnresolvable(args) ==
    args.type = "object" /\ (args.arg = Undefined \/ args.arg \in Unresolvable)

\* C7: for each of the seven tools and for an unknown tool name, a call with a
\* missing required argument or with an argument that resolves to nothing
\* returns {error} and never throws
C7_BadArgumentIsError ==
    /\ \A k \in 1..Len(toolCalls) :
          MissingOrUnresolvable(toolCalls[k].args) => IsError(toolCalls[k].result)
    /\ (ret.status = "raised" /\ ret.text \in {"TypeError", "Image generation failed"}) =>
            ~MissingOrUnresolvable(parseArgs(toolCallsList[idx].arguments))

(***************************************************************************)
(* Properties of the mode selection (specification SpecSend)               *)
(***************************************************************************)
\* the text contains one of the Python-only keywords as the claim lists them
HasPythonOnlyKeyword(text) ==
    regexTest(text,
              {"regression", "scatter", "histogram", "seaborn", "matplotlib", "numpy",
               "heatmap", "violin", "distribution", "logistic", "forecast"},
              { << "time", "series" >>, << "box", "plot" >>, << "linear", "model" >>,
                << "trend", "line" >> })

CodeExecutionMode == turn.path = "stream" /\ turn.useCodeExecution

\* C8: a turn whose text contains a Python-only keyword runs in code-execution
\* mode whatever is loaded or attached
C8_PythonOnlyForcesCode ==
    (turn.path # "none" /\ HasPythonOnlyKeyword(turn.text)) => CodeExecutionMode

\* C9 as stated: a turn whose text matches the generic keyword set while no CSV
\* dataset is loaded runs in code-execution mode, also when channel JSON is
\* loaded or an image is attached
C9_Original ==
    (turn.path # "none" /\ CODE_KEYWORDS(turn.text) /\ ~turn.csvLoaded) => CodeExecutionMode

\* C9 amended: a turn whose text matches the generic keyword set while no CSV
\* dataset is loaded runs in code-execution mode when no channel JSON is loaded
\* and no image is attached, and on the YouTube-tools path otherwise
C9_GenericKeywords ==
    (turn.path # "none" /\ CODE_KEYWORDS(turn.text) /\ ~turn.csvLoaded) =>
        IF turn.jsonLoaded \/ turn.nImages > 0
        THEN turn.path = "youtube"
        ELSE CodeExecutionMode

C9_Witness ==
    /\ turn.text = << "plot", "views" >>
    /\ ~turn.csvLoaded
    /\ ~turn.jsonLoaded
    /\ turn.nImages = 0
    /\ turn.path = "stream"
    /\ streaming

\* C10: the YouTube-tools path is never taken with a CSV dataset loaded, and
\* whenever it is taken channel JSON is loaded or an image is attached
C10_YoutubeOnlyWithoutCsv ==
    /\ (turn.path # "none" /\ turn.csvLoaded) => turn.path # "youtube"
    /\ turn.path = "youtube" => (turn.jsonLoaded \/ turn.nImages > 0)

C10_Witness ==
    /\ turn.path = "youtube"
    /\ ~turn.jsonLoaded
    /\ turn.nImages > 0
    /\ streaming

\* C11: CSV-tools mode is chosen exactly when a CSV dataset is loaded, the text
\* contains no Python-only keyword and no CSV file is attached in this turn
C11_CsvToolsExactly ==
    turn.path # "none" =>
        (turn.path = "csv" <=>
            (turn.csvLoaded /\ ~HasPythonOnlyKeyword(turn.text) /\ ~turn.csvAttached))

(***************************************************************************)
(* Properties of the sends in flight (specification SpecRace)              *)
(***************************************************************************)
\* the sends that have started and not finished
InFlight == { h \in 1..Len(handlers) : handlers[h].stage # "done" }

\* C12: at most one turn is in flight at a time: a send event that occurs
\* while an earlier send has not finished starts no second turn, creates no
\* second session and stores no second user message
C12_OneTurnInFlight ==
    /\ Cardinality(InFlight) <= 1
    /\ nSessions <= 1
    /\ Cardinality({ k \in 1..Len(persisted) : persisted[k].role = "user" })
          <= Cardinality({ k \in 1..Len(persisted) : persisted[k].role = "model" }) + 1
(***************************************************************************)
(* Properties of the body of handleSend (specification SpecTurn)           *)
(***************************************************************************)
IsPrefix(a, b) == Len(a) <= Len(b) /\ a = SubSeq(b, 1, Len(a))

\* the events the lines received call for: one per text line with a non-empty
\* text, in arrival order, up to the first sentinel
RECURSIVE ExpectedEvents(_)
ExpectedEvents(b) ==
    IF b = << >> \/ Head(b).kind = "done" THEN << >>
    ELSE IF Head(b).kind = "text" /\ Head(b).text # ""
         THEN << [type |-> "text", text |-> Head(b).text] >> \o ExpectedEvents(Tail(b))
         ELSE ExpectedEvents(Tail(b))

HasSentinel(b) == \E k \in 1..Len(b) : b[k].kind = "done"

\* C13: streamChat yields one text event per well-formed text line with a
\* non-empty text, in arrival order, and no other event; nothing for a
\* malformed line, nothing after the sentinel; it ends at the sentinel or at
\* the end of the body, and yields nothing when the request is refused
C13_StreamEvents ==
    /\ IsPrefix(events, ExpectedEvents(body))
    /\ local.left # "break" => events = ExpectedEvents(body)
    /\ \A k \in 1..Len(events) : events[k].type = "text" /\ events[k].text # ""
    /\ hpc = "read" => ~HasSentinel(body)
    /\ local.left = "return" => HasSentinel(body)
    /\ (turn.path = "stream" /\ ret.status = "raised") => (events = << >> /\ body = << >>)

C13_Witness ==
    /\ hpc = "idle"
    /\ local.left = "return"
    /\ Len(body) = MaxFrames
    /\ body[1].kind = "malformed"
    /\ body[2].kind = "done"
    /\ body[3].kind = "text" /\ body[3].text # ""
    /\ events = << >>

C13_WitnessText ==
    /\ hpc = "idle"
    /\ local.left = "end"
    /\ Len(events) = 2
    /\ events[1].text = "b"
    /\ events[2].text = "a"

\* the texts of a sequence of events, in order
RECURSIVE TextsOf(_)
TextsOf(ev) == IF ev = << >> THEN << >> ELSE << Head(ev).text >> \o TextsOf(Tail(ev))

\* the stored model message of the turn, once the handler has ended
ModelMessage == persisted[Len(persisted)]

\* the answer of a streamed turn is the text of the chunks applied: every event
\* received, but for the one at which the flag was seen set
AnswerIsAppliedChunks ==
    (turn.path = "stream" /\ ret.status # "raised") =>
        /\ local.left # "break" => local.fullContent = TextsOf(events)
        /\ local.left = "break" =>
              /\ events # << >>
              /\ local.fullContent = TextsOf(SubSeq(events, 1, Len(events) - 1))

\* what is stored for the turn is the answer as it stands when the loop is left
StoredIsAnswer ==
    hpc = "idle" =>
        /\ ModelMessage.role = "model"
        /\ ModelMessage.content = local.fullContent

\* in the tool modes the answer is what the orchestrator returned, whatever
\* the flag holds
ToolAnswerKept ==
    (turn.path \in {"csv", "youtube"} /\ hpc \in {"saveModel", "idle"} /\ ret.status = "returned") =>
        /\ local.fullContent = piece(ret.text)
        /\ local.toolCharts = ret.charts
        /\ local.toolCalls = ret.toolCalls

\* a chunk is appended only by a step that finds the flag clear, and none after
\* the flag has been seen set
ChunkAppliedUnlessAborted ==
    turn.path = "stream" /\ local'.fullContent # local.fullContent /\ ret'.status # "raised"
        => (~abortRef /\ local.left = "")

\* C14: in streaming mode the abort flag is checked before each chunk is
\* applied; once it is seen set no later chunk is appended, the text appended
\* so far stays and is the content stored for the turn; in the two tool modes
\* Stop changes neither the tools executed nor the answer returned
C14_AbortBetweenChunks ==
    /\ [](AnswerIsAppliedChunks /\ StoredIsAnswer /\ ToolAnswerKept)
    /\ [][ChunkAppliedUnlessAborted]_vars

C14_Witness ==
    /\ hpc = "idle"
    /\ turn.path = "stream"
    /\ local.left = "break"
    /\ Len(events) = 2
    /\ ModelMessage.content = << events[1].text >>

C14_WitnessTool ==
    /\ hpc = "idle"
    /\ turn.path = "youtube"
    /\ abortRef
    /\ ret.status = "returned"
    /\ Len(ret.toolCalls) > 0
    /\ ModelMessage.content = piece(ret.text)

\* the exception of a refused completion request carries the message the
\* server gave; that of a refused image request the message of the image
\* endpoint
CarriesServerMessage ==
    ret.status = "raised" =>
        /\ (response.kind = "error" /\ response.content # "") => ret.text = response.content
        /\ (response.kind = "calls" /\ ret.text # "TypeError") => ret.text = "Image generation failed"

\* once the handler has caught the exception its answer is the error text,
\* with no chart and no tool call
ErrorReplacesAnswer ==
    (ret.status = "raised" /\ hpc \in {"saveModel", "idle"}) =>
        /\ local.fullContent = << "Error: ", ret.text >>
        /\ local.toolCharts = << >>
        /\ local.toolCalls = << >>

ErrorIsStored ==
    (ret.status = "raised" /\ hpc = "idle") =>
        /\ ModelMessage.role = "model"
        /\ ModelMessage.content = << "Error: ", ret.text >>
        /\ ModelMessage.charts = << >>
        /\ ModelMessage.toolCalls = << >>
        /\ ~streaming

\* no request follows the exception
NoRetry == ret.status = "raised" => (nRequests' = nRequests /\ ret' = ret /\ sent' = sent)

\* C15: a non-success status of the completion endpoint, in any mode and any
\* round, or of the image endpoint raises an exception carrying the server's
\* message; handleSend stores "Error: <message>" as the model message, with no
\* charts and no tool calls, and the turn ends without another request
C15_ErrorEndsTurn ==
    /\ [](CarriesServerMessage /\ ErrorReplacesAnswer /\ ErrorIsStored)
    /\ [][NoRetry]_vars

C15_Witness ==
    /\ hpc = "idle"
    /\ ret.status = "raised"
    /\ response.kind = "error"
    /\ response.content = "OpenAI request failed"
    /\ round > 1
    /\ Len(toolCalls) > 0
    /\ ModelMessage.content = << "Error: ", "OpenAI request failed" >>

C15_WitnessImage ==
    /\ hpc = "idle"
    /\ ret.status = "raised"
    /\ response.kind = "calls"
    /\ ModelMessage.content = << "Error: ", "Image generation failed" >>

C15_WitnessStream ==
    /\ hpc = "idle"
    /\ turn.path = "stream"
    /\ ret.status = "raised"
    /\ ModelMessage.content = << "Error: ", "Internal Server Error" >>

\* a chart or tool result holds the bytes of an image
HoldsImageData(result) == result.imageData \notin {"", "[displayed above]"}

\* C16: no stored message, in its content, its charts or its toolCalls, holds
\* base64 image data
C16_NoBase64Stored ==
    \A k \in 1..Len(persisted) :
        /\ persisted[k].imageData = 0
        /\ \A c \in 1..Len(persisted[k].charts) : ~HoldsImageData(persisted[k].charts[c])
        /\ \A c \in 1..Len(persisted[k].toolCalls) :
              ~HoldsImageData(persisted[k].toolCalls[c].result)

(***************************************************************************)
(* Properties of the messages sent (specifications Spec and SpecContext)   *)
(***************************************************************************)
\* C17: in chatWithYoutubeTools no message sent holds base64 image data: the
\* tool message of a generated image carries a placeholder, that of a video
\* card a note, no message carries an attached image, and the records kept in
\* toolCalls and charts are the results as the tools returned them
C17_NoBase64Sent ==
    mode = "youtube" =>
        /\ \A k \in 1..Len(messages) :
              /\ messages[k].images = 0
              /\ ~HoldsImageData(messages[k].result)
        /\ \A k \in 1..Len(sent) :
              /\ sent[k].images = 0
              /\ ~HoldsImageData(sent[k].result)
        /\ Len(ToolMessages(messages)) = Len(toolCalls)
        /\ \A j \in 1..Len(toolCalls) :
              LET r == toolCalls[j].result
                  t == ToolMessages(messages)[j].result
              IN  /\ r._note = ""
                  /\ r._chartType = "generated_image" =>
                        /\ r.imageData = "base64"
                        /\ t = [r EXCEPT !.imageData = "[displayed above]",
                                         !._note = "image already displayed"]
                  /\ r._chartType = "play_video" =>
                        t = [r EXCEPT !._note = "video card already displayed"]
                  /\ r._chartType \notin {"generated_image", "play_video"} => t = r
        /\ \A c \in 1..Len(charts) :
              /\ charts[c]._note = ""
              /\ charts[c]._chartType = "generated_image" => charts[c].imageData = "base64"

C17_Witness ==
    /\ mode = "youtube"
    /\ turn.nImages > 0
    /\ \E k \in 1..Len(sent) :
          /\ sent[k].role = "tool"
          /\ sent[k].result._chartType = "generated_image"
          /\ sent[k].result.imageData = "[displayed above]"
    /\ \E c \in 1..Len(charts) : charts[c].imageData = "base64"
    /\ ret.status = "returned"

C17_WitnessVideo ==
    /\ mode = "youtube"
    /\ \E k \in 1..Len(sent) :
          /\ sent[k].role = "tool"
          /\ sent[k].result._chartType = "play_video"
          /\ sent[k].result._note = "video card already displayed"

\* the role the orchestrators give a message of the history
MappedRole(role) == IF role = "user" THEN "user" ELSE "assistant"

\* a message sequence that is one system message, the history in its order
\* with its roles mapped, then the new user message under its context header
\* (the columns of the loaded CSV, the fields of the loaded videos, none when
\* no channel video is loaded)
IsFirstRequest(s) ==
    /\ Len(s) = Len(history) + 2
    /\ s[1].role = "system"
    /\ \A k \in 2..Len(s) : s[k].role # "system"
    /\ \A i \in 1..Len(history) :
          /\ s[i + 1].role = MappedRole(history[i].role)
          /\ s[i + 1].content = history[i].content
          /\ s[i + 1].tool_calls = << >>
    /\ s[Len(s)].role = "user"
    /\ s[Len(s)].content = newMessage
    /\ s[Len(s)].header =
          (IF turn.csvLoaded THEN "[CSV columns]"
           ELSE IF sessionJsonData.videos # << >> THEN "[YouTube channel JSON loaded]"
           ELSE "")

FirstRequestShape ==
    nRequests >= 1 =>
        /\ Len(sent) >= Len(history) + 2
        /\ IsFirstRequest(SubSeq(sent, 1, Len(history) + 2))
        /\ nRequests = 1 => Len(sent) = Len(history) + 2
        /\ IsPrefix(sent, messages)

\* a later request extends the one before it
RequestsOnlyAppend == IsPrefix(sent, sent') /\ (sent # << >> => IsPrefix(messages, messages'))

C18_WitnessNoHeader ==
    /\ mode = "youtube"
    /\ nRequests = 2
    /\ sent[Len(history) + 2].header = ""

\* the prior user turns that introduce a name: an introduction phrase followed
\* by a name
Introduces(m) ==
    /\ m.role = "user"
    /\ m.content \in {"my name is Ann", "call me Bob", "call me J", "hello, I'm Ava"}

IntroducedName(m) ==
    CASE m.content = "my name is Ann" -> "Ann"
      [] m.content = "call me Bob" -> "Bob"
      [] m.content = "call me J" -> "J"
      [] OTHER -> "Ava"

Introductions == { i \in 1..Len(history) : Introduces(history[i]) }

MostRecent(S) == CHOOSE i \in S : \A j \in S : j <= i

\* C19: the system message carries exactly one identity directive: use the
\* name extracted from the current message or else from a prior user turn that
\* introduces one, the most recent such turn winning, and ask for the name
\* when no user turn introduces one; assistant turns are never a source
C19_IdentityDirective ==
    pc # "start" =>
        /\ messages[1].role = "system"
        /\ \A k \in 2..Len(messages) : messages[k].directive = "" /\ messages[k].userName = ""
        /\ messages[1].directive \in {"use_name", "ask_name"}
        /\ messages[1].directive = "use_name" <=> messages[1].userName # ""
        /\ newMessage = "[User: Cy] prompt" => messages[1].userName = "Cy"
        /\ (newMessage # "[User: Cy] prompt" /\ Introductions = {}) =>
              messages[1].directive = "ask_name"
        /\ (newMessage # "[User: Cy] prompt" /\ messages[1].directive = "use_name") =>
              /\ Introductions # {}
              /\ messages[1].userName = IntroducedName(history[MostRecent(Introductions)])

(***************************************************************************)
(* Properties of play_video (specification SpecPlay)                       *)
(***************************************************************************)
\* the title of the video play_video answers with, "error" for {error}
Played == IF toolCalls[1].result.error # "" THEN "error" ELSE toolCalls[1].result.key

\* the selector of the call
Selector == menu.arguments.arg

\* what the rules give, in their order, on titles [A, B, C] with views
\* [10, 30, 20]
OnSample ==
    [sel \in PlaySelectors |->
        CASE sel \in {"first", "1", "FIRST", "least viewed", ""} -> "A"
          [] sel \in {"second", "video 2", "2", "most viewed", " Most Viewed ", "b"} -> "B"
          [] sel \in {"3rd", "last", "most recent"} -> "C"
          [] OTHER -> "error"]

\* on titles [A, B] with views [10, 30]
OnPair ==
    [sel \in PlaySelectors |->
        CASE sel \in {"first", "1", "FIRST", "least viewed", ""} -> "A"
          [] sel \in {"second", "video 2", "2", "most viewed", " Most Viewed ", "b", "last",
                      "most recent"} -> "B"
          [] OTHER -> "error"]

\* on titles [Last, Most Viewed, Top 10] with views [10, 5, 50]: the rules for
\* "last" and "most viewed" come before the match of a title, and a bare
\* integer resolves to the video at that place or to none
OnTitled ==
    [sel \in PlaySelectors |->
        CASE sel \in {"first", "1", "FIRST", ""} -> "Last"
          [] sel \in {"second", "video 2", "2", "least viewed"} -> "Most Viewed"
          [] sel \in {"3rd", "last", "most recent", "most viewed", " Most Viewed "} -> "Top 10"
          [] OTHER -> "error"]

Resolves(expected) ==
    pc = "done" =>
        /\ sessionJsonData.videos = SampleVideos => Played = OnSample[Selector]
        /\ sessionJsonData.videos = SubSeq(SampleVideos, 1, 2) => Played = OnPair[Selector]
        /\ sessionJsonData.videos = TitledVideos => Played = expected[Selector]
        /\ sessionJsonData.videos = << >> => Played = "error"

C20_WitnessSample ==
    /\ pc = "done"
    /\ sessionJsonData.videos = SampleVideos
    /\ Selector = " Most Viewed "
    /\ Played = "B"
(***************************************************************************)
(* SpecTools: executeTool and executeYoutubeTool called on their own       *)
(***************************************************************************)
\* calls of one tool with the same arguments that are made in a row
MaxRepeats == 1

ToolRows == { << >>, SampleRows, TweetRows, SubSeq(TweetRows, 1, 3) }

ToolChannels ==
    { NullJson }
    \cup { [set |-> TRUE, videos |-> v] :
              v \in { << >>, SampleVideos, DurationVideos, SubSeq(DurationVideos, 1, 3) } }

\* top_n and n: omitted, 0, less than the rows, as many as the rows, more
ToolNumbers == { NoNumber, Given(0), Given(1), Given(2), Given(5), Given(7) }

CsvToolArgs ==
    { Args(col, n, asc) :
        col \in {"Favorite Count", "favorite_count", "likes", "lang", "retweets", "nope", Undefined},
        n \in ToolNumbers, asc \in BOOLEAN }
    \cup { [EmptyArgs EXCEPT !.type = "null"] }

YoutubeToolArgs ==
    { Args(a, NoNumber, FALSE) :
        a \in {"view_count", "duration", "duration_seconds", "title", "nope", "most viewed",
               "least viewed", "first", "a cat", Undefined} }
    \cup { [EmptyArgs EXCEPT !.type = "null"] }

CsvToolNames == {"compute_column_stats", "get_value_counts", "get_top_tweets", "no_such_tool"}

YoutubeToolNames ==
    {"generateImage", "plot_metric_vs_time", "play_video", "compute_stats_json", "no_such_tool"}

\* rows or channel JSON are loaded, or nothing is and an image may be attached
InitTools ==
    /\ input = << >>
    /\ csvContext = FALSE
    /\ jsonContext = FALSE
    /\ streaming = TRUE
    /\ mode \in {"csv", "youtube"}
    /\ sessionCsvRows \in { [set |-> TRUE, rows |-> r] : r \in ToolRows } \cup { NullData }
    /\ sessionJsonData \in ToolChannels
    /\ mode = "csv" <=> sessionCsvRows.set
    /\ mode = "csv" => sessionJsonData = NullJson
    /\ images \in 0..1
    /\ images = 1 => mode = "youtube"
    /\ turn = TurnRec(mode, FALSE, << "average" >>, sessionCsvRows.set, FALSE,
                      sessionJsonData.set, images)
    /\ menu = Filler(mode)
    /\ InitTurn
    /\ InitCtx
    /\ InitSvc
    /\ InitHost("run")
    /\ InitStored

\* one call: what it was given, what it did and what it returned or promised
ToolCall(name, args, out) ==
    [name |-> name, args |-> args, outcome |-> out.outcome, result |-> out.result]

\* the cells of a column are numbers in every row or in none: the comparator
\* of get_top_tweets then orders the rows, or leaves them all as they are
Comparable(rows, col) ==
    \/ \A i \in 1..Len(rows) : IsNumeric(rows[i], col)
    \/ \A i \in 1..Len(rows) : ~IsNumeric(rows[i], col)

\* csvTools.js:262-354: executeTool(name, args, sessionCsvRows); get_top_tweets
\* is called on the columns its comparator orders consistently
CallCsvTool ==
    /\ mode = "csv"
    /\ \E name \in CsvToolNames, args \in CsvToolArgs :
          /\ name = "get_top_tweets" /\ args.type = "object"
                => Comparable(sessionCsvRows.rows, resolveCol(sessionCsvRows.rows, args.arg))
          /\ toolCalls' = << ToolCall(name, args, executeFn(mode, name, args)) >>
          /\ sessionCsvRows' = [sessionCsvRows EXCEPT
                                    !.rows = rowsAfter(name, args, sessionCsvRows.rows)]
    /\ UNCHANGED << input, images, csvContext, sessionJsonData, jsonContext, streaming, turn >>
    /\ UNCHANGED << round, messages, sent, nRequests, response, toolCallsList, idx, charts, ret,
                    mode, menu, pc >>
    /\ UNCHANGED << ctxVars, svcVars, turnVars, persisted, raceVars >>

\* youtubeTools.js:89-197: executeYoutubeTool(name, args, sessionJsonData, anchorImage, generateImage)
CallYoutubeTool ==
    /\ mode = "youtube"
    /\ \E name \in YoutubeToolNames, args \in YoutubeToolArgs :
          /\ toolCalls' = << ToolCall(name, args, executeFn(mode, name, args)) >>
          /\ sessionJsonData' =
                IF sessionJsonData.set
                THEN [sessionJsonData EXCEPT
                          !.videos = videosAfter(name, args, sessionJsonData.videos)]
                ELSE sessionJsonData
    /\ UNCHANGED << input, images, csvContext, sessionCsvRows, jsonContext, streaming, turn >>
    /\ UNCHANGED << round, messages, sent, nRequests, response, toolCallsList, idx, charts, ret,
                    mode, menu, pc >>
    /\ UNCHANGED << ctxVars, svcVars, turnVars, persisted, raceVars >>

\* the call made last is made again with the same arguments
RepeatCall ==
    /\ toolCalls # << >>
    /\ Len(toolCalls) <= MaxRepeats
    /\ LET last == toolCalls[Len(toolCalls)]
       IN  /\ toolCalls' = Append(toolCalls,
                                  ToolCall(last.name, last.args, executeFn(mode, last.name, last.args)))
           /\ sessionCsvRows' =
                 IF mode = "csv"
                 THEN [sessionCsvRows EXCEPT
                           !.rows = rowsAfter(last.name, last.args, sessionCsvRows.rows)]
                 ELSE sessionCsvRows
           /\ sessionJsonData' =
                 IF mode = "youtube" /\ sessionJsonData.set
                 THEN [sessionJsonData EXCEPT
                           !.videos = videosAfter(last.name, last.args, sessionJsonData.videos)]
                 ELSE sessionJsonData
    /\ UNCHANGED << input, images, csvContext, jsonContext, streaming, turn >>
    /\ UNCHANGED << round, messages, sent, nRequests, response, toolCallsList, idx, charts, ret,
                    mode, menu, pc >>
    /\ UNCHANGED << ctxVars, svcVars, turnVars, persisted, raceVars >>

NextTools == CallCsvTool \/ CallYoutubeTool \/ RepeatCall

SpecTools == InitTools /\ [][NextTools]_vars

\* the call a state of SpecTools has made last
LastCall == toolCalls[Len(toolCalls)]

Called(name) == toolCalls # << >> /\ LastCall.name = name /\ LastCall.args.type = "object"

Rows == sessionCsvRows.rows

Videos == IF sessionJsonData.set THEN sessionJsonData.videos ELSE << >>

\* the durations of the model that are of the form PT#H#M#S, with their seconds
IsoSeconds == [str \in {"PT4M13S", "PT1H"} |-> IF str = "PT4M13S" THEN 253 ELSE 3600]

IsIsoDuration(cell) == ~cell.num /\ cell.s \in DOMAIN IsoSeconds

\* the videos a tool over the duration field is to count
WithDuration(videos) == SelectSeq(videos, LAMBDA v : IsIsoDuration(v["duration"]))

\* C21: parseDuration gives a duration of the form PT#H#M#S its total seconds
\* and gives null for every other string and every value that is not a string
\* or is empty; plot_metric_vs_time and compute_stats_json over the duration
\* field leave out the videos whose duration is null.
C21_DurationParsing ==
    toolCalls # << >> /\ LastCall.name \in {"compute_stats_json", "plot_metric_vs_time"}
    /\ LastCall.args.type = "object" /\ LastCall.args.arg = "duration"
    => /\ \A i \in 1..Len(Videos) :
             LET dur == Videos[i]["duration"]
             IN  parseDuration(dur)
                    = IF IsIsoDuration(dur) THEN Seconds(IsoSeconds[dur.s]) ELSE Null
       /\ LastCall.result.count
             = IF LastCall.name = "compute_stats_json" THEN Len(WithDuration(Videos))
               ELSE Len(SelectSeq(WithDuration(Videos), HasDate))

\* the number a video holds in a field: for the duration fields the seconds of
\* a duration of the form PT#H#M#S, or the field itself when it is a number
NumericValue(v, field) ==
    IF field \in {"duration", "duration_seconds"}
    THEN IF IsIsoDuration(v["duration"]) THEN Seconds(IsoSeconds[v["duration"].s])
         ELSE IF field \in DOMAIN v /\ v[field].num THEN Seconds(v[field].n)
         ELSE Null
    ELSE IF field \in DOMAIN v /\ v[field].num THEN Seconds(v[field].n)
    ELSE Null

\* the videos plot_metric_vs_time is to keep: those with a date and a number
\* in the field, by their positions
Dated(v) == v["published_at"] # Str("") /\ v["published_at"] # Num(0)

ValidAt(field) == { i \in 1..Len(Videos) : Dated(Videos[i]) /\ NumericValue(Videos[i], field).ok }

\* the place of video i among the valid ones: after those of an earlier date
\* and after those of the same date that come before it
PlaceOf(i, field) ==
    1 + Cardinality({ j \in ValidAt(field) :
                        \/ Videos[j]["published_at"].n < Videos[i]["published_at"].n
                        \/ Videos[j]["published_at"].n = Videos[i]["published_at"].n /\ j < i })

\* C22: plot_metric_vs_time returns one {date, value} pair for each video that
\* has a date and a numeric value of the field and for no other video, in
\* ascending date order with equal dates in input order, and returns the error
\* that lists the available fields exactly when no pair remains.
C22_PairsByDate ==
    Called("plot_metric_vs_time") /\ Videos # << >> =>
        LET field == LastCall.args.arg
            out == LastCall.result
        IN  /\ out.error = "no_valid_data" <=> ValidAt(field) = {}
            /\ out.error # "" => out.error = "no_valid_data" /\ out.value = DOMAIN Videos[1]
            /\ out.error = "" =>
                  /\ out._chartType = "metric_vs_time"
                  /\ Len(out.value) = Cardinality(ValidAt(field))
                  /\ \A i \in ValidAt(field) :
                        out.value[PlaceOf(i, field)]
                            = [date |-> Videos[i]["published_at"],
                               value |-> NumericValue(Videos[i], field).v]

\* the same on every field but the duration fields
C22_OtherFields ==
    ~(toolCalls # << >> /\ LastCall.args.arg \in {"duration", "duration_seconds"})
        => C22_PairsByDate

\* C23: with no videos loaded plot_metric_vs_time, play_video and
\* compute_stats_json return the 'no data loaded' error and compute nothing,
\* whatever their arguments; generateImage is not blocked: it is handed to
\* generateImage with its prompt and the anchor image of the turn.
C23_NoDataGuard ==
    /\ (~sessionJsonData.set \/ sessionJsonData.videos = << >>) =>
          \A i \in 1..Len(toolCalls) :
              toolCalls[i].name \in {"plot_metric_vs_time", "play_video", "compute_stats_json"}
              => /\ toolCalls[i].outcome = "value"
                 /\ toolCalls[i].result = ErrorResult("no_data", toolCalls[i].name)
    /\ Called("generateImage") =>
          /\ LastCall.outcome = "promise"
          /\ LastCall.result.key = LastCall.args.arg
          /\ LastCall.result.value = << IF images = 1 THEN "base64" ELSE Undefined >>

\* no channel JSON is loaded and a tool that needs it is called
C23_Witness ==
    /\ toolCalls # << >>
    /\ sessionJsonData = NullJson
    /\ LastCall.name = "compute_stats_json"
    /\ LastCall.result.error = "no_data"

\* an image is attached, no channel JSON is loaded and generateImage is called
C23_WitnessImage ==
    /\ Called("generateImage")
    /\ sessionJsonData = NullJson
    /\ images = 1
    /\ LastCall.outcome = "promise"
    /\ LastCall.result.value = << "base64" >>

(***************************************************************************)
(* SpecParse: parseCsvToRows on the text of a rectangular CSV file         *)
(***************************************************************************)
\* data rows of a CSV text
MaxRows == 2

Quote == "\""

\* the cells of the texts: empty, plain, quoted, quoted with a comma inside,
\* quoted and empty
Cells ==
    { << >>, << "a" >>, << Quote, "b", Quote >>, << Quote, "a", ",", "b", Quote >>,
      << Quote, Quote >> }

\* the header lines: one column, or two of which the first is quoted
Headers == { << << "h" >> >>, << << Quote, "h", Quote >>, << "k" >> >> }

Grids ==
    { [header |-> h, rows |-> r] :
        h \in Headers,
        r \in UNION { [1..n -> UNION { [1..m -> Cells] : m \in 1..2 }] : n \in 0..MaxRows } }

Rectangular(grid) == \A r \in 1..Len(grid.rows) : Len(grid.rows[r]) = Len(grid.header)

\* cells joined by sep
RECURSIVE Join(_, _)
Join(parts, sep) ==
    IF parts = << >> THEN << >>
    ELSE IF Len(parts) = 1 THEN parts[1]
    ELSE parts[1] \o << sep >> \o Join(Tail(parts), sep)

\* the text of a grid: a line per row, the header first, no line end after the last
TextOf(grid) ==
    Join([i \in 1..Len(grid.rows) + 1 |->
              IF i = 1 THEN Join(grid.header, ",") ELSE Join(grid.rows[i - 1], ",")], "\n")

\* text.split(sep)
RECURSIVE split(_, _)
split(text, sep) ==
    LET at == { i \in 1..Len(text) : text[i] = sep }
    IN  IF at = {} THEN << text >>
        ELSE LET i == CHOOSE x \in at : \A y \in at : x <= y
             IN  << SubSeq(text, 1, i - 1) >> \o split(SubSeq(text, i + 1, Len(text)), sep)

\* s.trim() on texts whose only white space is the space
RECURSIVE trim(_)
trim(chars) ==
    IF chars = << >> THEN chars
    ELSE IF Head(chars) = " " THEN trim(Tail(chars))
    ELSE IF chars[Len(chars)] = " " THEN trim(SubSeq(chars, 1, Len(chars) - 1))
    ELSE chars

\* csvTools.js:70-87: the loop of parseLine from position i on
RECURSIVE parseFrom(_, _, _, _, _)
parseFrom(chars, i, result, current, inQuotes) ==
    IF i > Len(chars) THEN Append(result, trim(current))
    ELSE IF chars[i] = Quote THEN parseFrom(chars, i + 1, result, current, ~inQuotes)
    ELSE IF chars[i] = "," /\ ~inQuotes
         THEN parseFrom(chars, i + 1, Append(result, trim(current)), << >>, inQuotes)
    ELSE parseFrom(chars, i + 1, result, Append(current, chars[i]), inQuotes)

parseLine(chars) == parseFrom(chars, 1, << >>, << >>, FALSE)

\* s.replace(/^"|"$/g, '')
stripQuotes(chars) ==
    LET first == IF chars # << >> /\ Head(chars) = Quote THEN Tail(chars) ELSE chars
    IN  IF first # << >> /\ first[Len(first)] = Quote THEN SubSeq(first, 1, Len(first) - 1)
        ELSE first

\* csvTools.js:92: .filter((l) => l.trim())
nonEmpty(textLines) == SelectSeq(textLines, LAMBDA l : trim(l) # << >>)

\* csvTools.js:96-102: obj[h] = (vals[i] || '').replace(...) for each header in
\* turn, a later column of the same name overwriting an earlier one
RowObject(headers, vals) ==
    [h \in { headers[i] : i \in 1..Len(headers) } |->
        LET i == CHOOSE x \in 1..Len(headers) :
                     headers[x] = h /\ \A y \in 1..Len(headers) : headers[y] = h => y <= x
        IN  IF i <= Len(vals) THEN stripQuotes(vals[i]) ELSE << >>]

\* csvTools.js:91-104
parseCsvToRows(text) ==
    LET textLines == nonEmpty(split(text, "\n"))
        headers == [i \in 1..Len(parseLine(textLines[1])) |->
                        stripQuotes(parseLine(textLines[1])[i])]
    IN  IF Len(textLines) < 2 THEN NoDataset
        ELSE [headers |-> headers,
              rows |-> [r \in 1..Len(textLines) - 1 |->
                           RowObject(headers, parseLine(textLines[r + 1]))]]

\* a rectangular file is dropped into the chat
InitParse ==
    /\ csvGrid \in { g \in Grids : Rectangular(g) }
    /\ csvText = TextOf(csvGrid)
    /\ dataset = NoDataset
    /\ step = 0
    /\ wire = << >>
    /\ buf = << >>
    /\ InitServer
    /\ InitChat
    /\ input = << >>
    /\ csvContext = FALSE
    /\ jsonContext = FALSE
    /\ streaming = FALSE
    /\ mode = "csv"
    /\ sessionCsvRows = NullData
    /\ sessionJsonData = NullJson
    /\ images = 0
    /\ turn = NoTurn
    /\ menu = Filler(mode)
    /\ InitTurn
    /\ InitCtx
    /\ InitHost("idle")
    /\ InitStored

\* Chat.js:268-270 and 316-318: const raw = parseCsvToRows(text)
ParseCsv ==
    /\ step = 0
    /\ dataset' = parseCsvToRows(csvText)
    /\ step' = 1
    /\ UNCHANGED << csvGrid, csvText, wire, buf, serverVars, chatVars >>
    /\ UNCHANGED << uiVars, fcVars, ctxVars, turnVars, persisted, raceVars >>

SpecParse == InitParse /\ [][ParseCsv]_vars

\* a cell without the quotes around it
Unquoted(cell) ==
    IF Len(cell) >= 2 /\ cell[1] = Quote /\ cell[Len(cell)] = Quote
    THEN SubSeq(cell, 2, Len(cell) - 1)
    ELSE cell

\* C24: for the text of a rectangular CSV with a header of M columns and N
\* data rows, parseCsvToRows returns M columns and N rows, and each row read
\* under the header gives every cell of the text without its surrounding quotes.
C24_ParseRoundTrip ==
    step = 1 =>
        /\ Len(dataset.headers) = Len(csvGrid.header)
        /\ Len(dataset.rows) = Len(csvGrid.rows)
        /\ \A r \in 1..Len(csvGrid.rows), c \in 1..Len(csvGrid.header) :
              dataset.rows[r][Unquoted(csvGrid.header[c])] = Unquoted(csvGrid.rows[r][c])

(***************************************************************************)
(* SpecEnrich: enrichWithEngagement applied to a dataset, again and again   *)
(***************************************************************************)
\* applications of enrichWithEngagement to one dataset
MaxEnrichments == 2

\* /^likes?$/i and /^views?$/i on the column names of the model
likesNames == {"likes", "Like"}
viewsNames == {"views", "View"}

\* the engagement of a row: null, or a number kept in millionths
NullEngagement == [null |-> TRUE, millionths |-> 0]
Engagement(m) == [null |-> FALSE, millionths |-> m]

\* +(fav / view).toFixed(6) for view > 0, in millionths: the quotient rounded
\* to the nearest millionth, a half away from zero
toFixed6(fav, view) ==
    IF fav >= 0 THEN (2 * fav * 1000000 + view) \div (2 * view)
    ELSE 0 - ((2 * (0 - fav) * 1000000 + view) \div (2 * view))

\* variant: the quotient is taken only when both numbers are positive
eng_bothPositive(fav, view) ==
    IF fav.num /\ view.num /\ fav.n > 0 /\ view.n > 0
    THEN Engagement(toFixed6(fav.n, view.n))
    ELSE NullEngagement

\* csvTools.js:191-196: fav and view are the cells of the row, undefined read as
\* a cell that is not a number
eng(fav, view) ==
    IF fav.num /\ view.num /\ view.n > 0
    THEN Engagement(toFixed6(fav.n, view.n))
    ELSE NullEngagement

\* variant: the column is added whatever the headers are
hasEngagement_never(headers) == FALSE

\* csvTools.js:189: headers.includes('engagement')
hasEngagement(headers) == \E i \in 1..Len(headers) : headers[i] = "engagement"

\* a || b on two results of headers.find
OrElse(a, b) == IF a # Undefined THEN a ELSE b

\* csvTools.js:177-201
enrichWithEngagement(rows, headers) ==
    LET favCol == OrElse(FirstHeader(headers, favoriteCountNames), FirstHeader(headers, likesNames))
        viewCol == OrElse(FirstHeader(headers, viewCountNames), FirstHeader(headers, viewsNames))
        cell(r, col) == IF col \in DOMAIN r THEN r[col] ELSE Str("")
    IN  IF rows = << >> THEN [headers |-> headers, rows |-> rows]
        ELSE IF favCol = Undefined \/ viewCol = Undefined THEN [headers |-> headers, rows |-> rows]
        ELSE IF hasEngagement(headers) THEN [headers |-> headers, rows |-> rows]
        ELSE [headers |-> Append(headers, "engagement"),
              rows |-> [i \in 1..Len(rows) |->
                           [h \in DOMAIN rows[i] \cup {"engagement"} |->
                               IF h = "engagement"
                               THEN eng(cell(rows[i], favCol), cell(rows[i], viewCol))
                               ELSE rows[i][h]]]]

\* the header lines of the datasets: both columns under either of their names,
\* one of them missing, 'engagement' already there, and both names of each
EnrichHeaders ==
    { << "text", "Favorite Count", "View Count" >>,
      << "text", "likes", "views" >>,
      << "text", "Favorite Count" >>,
      << "text", "views" >>,
      << "text", "favorite_count", "view_count", "engagement" >>,
      << "likes", "Favorite Count", "views", "View Count" >> }

\* the cells of the two columns: positive, zero, negative, blank, a word
FavCells == { Num(3), Num(0), Num(0 - 2), Str(""), Str("n/a") }
ViewCells == { Num(10), Num(0), Num(0 - 5), Str("") }

\* a row under the headers: fav and view in the columns enrichWithEngagement
\* is to read, 1 in a likes or views column that it is to pass over
EnrichRow(headers, fav, view) ==
    LET names == { headers[i] : i \in 1..Len(headers) }
    IN  [h \in names |->
            CASE h \in favoriteCountNames -> fav
              [] h \in viewCountNames -> view
              [] h \in likesNames -> IF names \cap favoriteCountNames = {} THEN fav ELSE Num(1)
              [] h \in viewsNames -> IF names \cap viewCountNames = {} THEN view ELSE Num(1)
              [] h = "engagement" -> Str("0.5")
              [] OTHER -> Str("t")]

EnrichDatasets ==
    { [headers |-> h, rows |-> [i \in 1..Len(cells) |-> EnrichRow(h, cells[i][1], cells[i][2])]] :
        h \in EnrichHeaders,
        cells \in UNION { [1..n -> FavCells \X ViewCells] : n \in 0..MaxRows } }

InitEnrich ==
    /\ csvGrid = NoGrid
    /\ csvText = << >>
    /\ dataset \in EnrichDatasets
    /\ step = 0
    /\ wire = << >>
    /\ buf = << >>
    /\ InitServer
    /\ InitChat
    /\ input = << >>
    /\ csvContext = FALSE
    /\ jsonContext = FALSE
    /\ streaming = FALSE
    /\ mode = "csv"
    /\ sessionCsvRows = NullData
    /\ sessionJsonData = NullJson
    /\ images = 0
    /\ turn = NoTurn
    /\ menu = Filler(mode)
    /\ InitTurn
    /\ InitCtx
    /\ InitHost("idle")
    /\ InitStored

\* Chat.js:276 and 321: enrichWithEngagement(raw.rows, raw.headers), and then
\* on what it returned
Enrich ==
    /\ step < MaxEnrichments
    /\ dataset' = enrichWithEngagement(dataset.rows, dataset.headers)
    /\ step' = step + 1
    /\ UNCHANGED << csvGrid, csvText, wire, buf, serverVars, chatVars >>
    /\ UNCHANGED << uiVars, fcVars, ctxVars, turnVars, persisted, raceVars >>

SpecEnrich == InitEnrich /\ [][Enrich]_vars

\* the column enrichWithEngagement is to read for the favorites and the views
Names(headers) == { headers[i] : i \in 1..Len(headers) }

FavoriteColumn ==
    IF Names(dataset.headers) \cap favoriteCountNames # {}
    THEN CHOOSE h \in Names(dataset.headers) \cap favoriteCountNames : TRUE
    ELSE IF Names(dataset.headers) \cap likesNames # {}
    THEN CHOOSE h \in Names(dataset.headers) \cap likesNames : TRUE
    ELSE Undefined

ViewColumn ==
    IF Names(dataset.headers) \cap viewCountNames # {}
    THEN CHOOSE h \in Names(dataset.headers) \cap viewCountNames : TRUE
    ELSE IF Names(dataset.headers) \cap viewsNames # {}
    THEN CHOOSE h \in Names(dataset.headers) \cap viewsNames : TRUE
    ELSE Undefined

\* C25: enrichWithEngagement is idempotent: applied to its own output it
\* returns the same headers and the same rows; and it returns the dataset as
\* it is when the favorite-count or the view-count column is not found or an
\* 'engagement' column is already there.
C25_EnrichIdempotent ==
    [][ /\ step >= 1 => dataset' = dataset
        /\ ( \/ FavoriteColumn = Undefined
             \/ ViewColumn = Undefined
             \/ "engagement" \in Names(dataset.headers) ) => dataset' = dataset ]_vars

\* a dataset with rows was given the column, and the function is applied again
C25_Witness ==
    /\ step = 2
    /\ Len(dataset.rows) = 2
    /\ dataset.headers = << "text", "likes", "views", "engagement" >>
    /\ dataset.rows[1]["engagement"] = Engagement(300000)

\* a dataset without a view-count column has been through the function
C25_WitnessMissing ==
    /\ step = 1
    /\ dataset.rows # << >>
    /\ dataset.headers = << "text", "Favorite Count" >>

\* the enriched rows of a dataset that was given the column by the function
Enriched ==
    /\ step >= 1
    /\ dataset.rows # << >>
    /\ FavoriteColumn # Undefined
    /\ ViewColumn # Undefined
    /\ dataset.headers[Len(dataset.headers)] = "engagement"
    /\ Len(SelectSeq(dataset.headers, LAMBDA h : h = "engagement")) = 1
    /\ dataset.headers # << "text", "favorite_count", "view_count", "engagement" >>

\* the quotient in millionths is m: m / 1000000 is within half a millionth of fav / view
IsQuotient(m, fav, view) ==
    /\ 2 * m * view <= 2 * fav * 1000000 + view
    /\ 2 * m * view >= 2 * fav * 1000000 - view

\* C26 as stated: after enrichment the engagement of a row is favorite-count
\* divided by view-count exactly when both are positive numbers, and null in
\* every other case.
C26_Original ==
    Enriched =>
        \A i \in 1..Len(dataset.rows) :
            LET r == dataset.rows[i]
                fav == r[FavoriteColumn]
                view == r[ViewColumn]
            IN  IF fav.num /\ view.num /\ fav.n > 0 /\ view.n > 0
                THEN ~r["engagement"].null
                     /\ IsQuotient(r["engagement"].millionths, fav.n, view.n)
                ELSE r["engagement"] = NullEngagement

\* C26: after enrichment the engagement of a row is favorite-count divided by
\* view-count, rounded to six decimals, exactly when both parse to numbers and
\* the view-count is positive, and null in every other case: a blank or
\* non-numeric value in either column, a view-count that is zero or negative.
C26_EngagementValue ==
    Enriched =>
        \A i \in 1..Len(dataset.rows) :
            LET r == dataset.rows[i]
                fav == r[FavoriteColumn]
                view == r[ViewColumn]
            IN  IF fav.num /\ view.num /\ view.n > 0
                THEN ~r["engagement"].null
                     /\ IsQuotient(r["engagement"].millionths, fav.n, view.n)
                ELSE r["engagement"] = NullEngagement

\* a row with no favorites and views has engagement 0, one with no views null
C26_Witness ==
    /\ Enriched
    /\ dataset.headers = << "text", "Favorite Count", "View Count", "engagement" >>
    /\ Len(dataset.rows) = 2
    /\ dataset.rows[1]["Favorite Count"] = Num(0)
    /\ dataset.rows[1]["View Count"] = Num(10)
    /\ dataset.rows[1]["engagement"] = Engagement(0)
    /\ dataset.rows[2]["View Count"] = Num(0)
    /\ dataset.rows[2]["engagement"] = NullEngagement

\* the values of a column that are to be counted, each with the number of
\* rows that hold it and the first of them
CountedIn(col) ==
    { Rows[i][col] : i \in { j \in 1..Len(Rows) : col \in DOMAIN Rows[j] /\ Rows[j][col] # Str("") } }

RowsWith(col, v) == { i \in 1..Len(Rows) : col \in DOMAIN Rows[i] /\ Rows[i][col] = v }

FirstOf(col, v) == CHOOSE i \in RowsWith(col, v) : \A j \in RowsWith(col, v) : i <= j

\* the place of a value in descending count, ties in order of first encounter
RankOf(col, v) ==
    1 + Cardinality({ w \in CountedIn(col) :
                        \/ Cardinality(RowsWith(col, w)) > Cardinality(RowsWith(col, v))
                        \/ /\ Cardinality(RowsWith(col, w)) = Cardinality(RowsWith(col, v))
                           /\ FirstOf(col, w) < FirstOf(col, v) })

\* C27: get_value_counts returns the values of the resolved column with the
\* highest counts, at most top_n of them (10 when top_n is omitted), as a
\* mapping that iterates in descending count, ties in order of first
\* encounter; blank and missing values are not counted.
C27_ValueCounts ==
    Called("get_value_counts") =>
        LET col == resolveCol(Rows, LastCall.args.arg)
            topN == IF LastCall.args.n = NoNumber THEN DefaultN ELSE LastCall.args.n[1]
            out == LastCall.result.value
        IN  /\ Len(out) = Min(topN, Cardinality(CountedIn(col)))
            /\ \A v \in CountedIn(col) :
                  RankOf(col, v) <= topN
                  => out[RankOf(col, v)] = [key |-> v, count |-> Cardinality(RowsWith(col, v))]

\* the same when the values of the column are words and top_n is not 0
C27_OnWords ==
    ~(toolCalls # << >> /\ (LastCall.args.n = Given(0)
                            \/ \E v \in CountedIn(resolveCol(Rows, LastCall.args.arg)) : v.num))
        => C27_ValueCounts

\* the place of row i when the rows are ordered by the number in col,
\* descending unless asc, equal numbers in row order
PlaceByValue(i, col, asc) ==
    1 + Cardinality({ j \in 1..Len(Rows) :
                        \/ asc /\ Rows[j][col].n < Rows[i][col].n
                        \/ ~asc /\ Rows[j][col].n > Rows[i][col].n
                        \/ Rows[j][col].n = Rows[i][col].n /\ j < i })

\* C28: on rows whose sort column is numeric in every row get_top_tweets
\* returns min(n, number of rows) rows for any n >= 0 that is given, 10 at
\* most when n is omitted, in descending order of the sort value (ascending
\* when asked), ties in row order, ranked 1..count; when the sort column is
\* not resolved the rows come in their original order; the error is returned
\* only when no row remains.
C28_TopTweets ==
    Called("get_top_tweets") =>
        LET col == resolveCol(Rows, LastCall.args.arg)
            n == IF LastCall.args.n = NoNumber THEN DefaultN ELSE LastCall.args.n[1]
            count == Min(n, Len(Rows))
            out == LastCall.result
            numeric == \A i \in 1..Len(Rows) : IsNumeric(Rows[i], col)
            unresolved == \A i \in 1..Len(Rows) : col \notin DOMAIN Rows[i]
            place(i) == IF numeric THEN PlaceByValue(i, col, LastCall.args.ascending) ELSE i
        IN  numeric \/ unresolved =>
                /\ out.error # "" <=> count = 0
                /\ out.error = "" =>
                      /\ out.count = count
                      /\ Len(out.value) = count
                      /\ \A j \in 1..count : out.value[j].rank = j
                      /\ \A i \in 1..Len(Rows) :
                            place(i) <= count
                            => out.value[place(i)].cells["text"] = Rows[i]["text"]

\* the same when n is not 0
C28_NotZero ==
    ~(toolCalls # << >> /\ LastCall.args.n = Given(0)) => C28_TopTweets

\* the value at place r of the values in ascending order
ValueAt(values, r) ==
    LET i == CHOOSE x \in 1..Len(values) :
                 r = 1 + Cardinality({ j \in 1..Len(values) :
                                         \/ values[j] < values[x]
                                         \/ values[j] = values[x] /\ j < x })
    IN  values[i]

\* the median of k values as a fraction in lowest terms: the middle one, or
\* half the sum of the two in the middle
MedianOf(values) ==
    LET k == Len(values)
        two == ValueAt(values, k \div 2) + ValueAt(values, k \div 2 + 1)
    IN  IF k % 2 = 1 THEN [num |-> ValueAt(values, (k + 1) \div 2), den |-> 1]
        ELSE IF two % 2 = 0 THEN [num |-> two \div 2, den |-> 1]
        ELSE [num |-> two, den |-> 2]

\* the numbers of a column of the rows and of a field of videos
NumbersOfColumn(col) ==
    LET kept == SelectSeq(Rows, LAMBDA r : col \in DOMAIN r /\ r[col].num)
    IN  [i \in 1..Len(kept) |-> kept[i][col].n]

NumbersOfField(videos, field) ==
    LET kept == SelectSeq(videos, LAMBDA v : NumericValue(v, field).ok)
    IN  [i \in 1..Len(kept) |-> NumericValue(kept[i], field).v]

SameValues(a, b) ==
    /\ Len(a) = Len(b)
    /\ \A r \in 1..Len(a) : ValueAt(a, r) = ValueAt(b, r)

\* C29: compute_column_stats and compute_stats_json over the k numbers of a
\* column or field report count k and as median the middle one of the sorted
\* numbers when k is odd and the average of the two middle ones when k is
\* even; for the same numbers both tools report the same median.
C29_Median ==
    /\ Called("compute_column_stats") /\ LastCall.result.error = "" =>
          LET values == NumbersOfColumn(resolveCol(Rows, LastCall.args.arg))
          IN  /\ LastCall.result.value.count = Len(values)
              /\ LastCall.result.value.median = MedianOf(values)
              /\ \A channel \in ToolChannels, field \in {"view_count", "duration"} :
                    channel.set /\ SameValues(values, NumbersOfField(channel.videos, field))
                    => compute_stats_json(channel.videos, Args(field, NoNumber, FALSE)).value.median
                           = LastCall.result.value.median
    /\ Called("compute_stats_json") /\ LastCall.result.error = "" =>
          LET values == NumbersOfField(Videos, LastCall.args.arg)
          IN  /\ LastCall.result.value.count = Len(values)
              /\ LastCall.result.value.median = MedianOf(values)

\* the same on every field but the duration fields
C29_OtherFields ==
    ~(toolCalls # << >> /\ LastCall.name = "compute_stats_json"
      /\ LastCall.args.arg \in {"duration", "duration_seconds"})
        => C29_Median

\* C30: a call of executeTool or executeYoutubeTool, whatever the tool and
\* its arguments, leaves the rows and the videos as they were: the same
\* elements in the same order with the same values; and a call repeated with
\* the same arguments returns the same result.
C30_DataUnchanged ==
    [][ /\ sessionCsvRows' = sessionCsvRows
        /\ sessionJsonData' = sessionJsonData
        /\ \A i, j \in 1..Len(toolCalls') :
              toolCalls'[i].name = toolCalls'[j].name /\ toolCalls'[i].args = toolCalls'[j].args
              => toolCalls'[i] = toolCalls'[j] ]_vars

\* get_top_tweets has sorted the rows into another order, twice
C30_Witness ==
    /\ Len(toolCalls) = 2
    /\ LastCall.name = "get_top_tweets"
    /\ LastCall.args = Args("Favorite Count", Given(2), FALSE)
    /\ Rows = TweetRows
    /\ [i \in 1..2 |-> LastCall.result.value[i].cells["text"]] = << Str("t2"), Str("t5") >>

\* play_video has sorted the videos by their views, twice
C30_WitnessVideos ==
    /\ Len(toolCalls) = 2
    /\ LastCall.name = "play_video"
    /\ LastCall.args.arg = "most viewed"
    /\ LastCall.result.key = "B"
    /\ Videos = SampleVideos

(***************************************************************************)
(* Properties of the path of a turn (specification SpecSend)               *)
(***************************************************************************)
\* the conditions of Chat.js:396-397 on what the turn in flight captured
TurnUsesTools ==
    useTools(turn.text, [set |-> turn.csvLoaded], turn.csvAttached)

TurnUsesYoutubeTools ==
    useYoutubeTools([set |-> turn.csvLoaded], [set |-> turn.jsonLoaded], turn.nImages)

\* C31: whatever the text, the loaded CSV dataset, the CSV attached this turn,
\* the loaded channel JSON and the attached images, the CSV-tools and the
\* YouTube-tools conditions are never both true and the turn runs exactly one
\* path: the YouTube orchestrator exactly under the YouTube condition, the CSV
\* orchestrator exactly under the CSV condition, streaming exactly under
\* neither.
C31_ExactlyOnePath ==
    turn.path # "none" =>
        /\ ~(TurnUsesTools /\ TurnUsesYoutubeTools)
        /\ turn.path \in {"youtube", "csv", "stream"}
        /\ turn.path = "youtube" <=> TurnUsesYoutubeTools
        /\ turn.path = "csv" <=> TurnUsesTools
        /\ turn.path = "stream" <=> (~TurnUsesTools /\ ~TurnUsesYoutubeTools)

\* a CSV dataset, channel JSON and an image all at hand: the CSV tools run
C31_Witness ==
    /\ streaming
    /\ turn.path = "csv"
    /\ turn.csvLoaded
    /\ turn.jsonLoaded
    /\ turn.nImages > 0

(***************************************************************************)
(* Properties of the records of a turn (specification Spec)                *)
(***************************************************************************)
\* the results recorded in toolCalls, in order
RecordedResults == [i \in 1..Len(toolCalls) |-> toolCalls[i].result]

\* C32: at every point of a function-calling turn charts is the subsequence,
\* in order, of the results recorded in toolCalls that carry _chartType, so
\* charts is no longer than toolCalls, and the tool messages pushed to
\* messages are as many as the records of toolCalls.
C32_ChartsOfCalls ==
    /\ charts = SelectSeq(RecordedResults, LAMBDA r : r._chartType # "")
    /\ Len(charts) <= Len(toolCalls)
    /\ Len(ToolMessages(messages)) = Len(toolCalls)

\* calls with and without a chart have been recorded, a chart not first
C32_Witness ==
    /\ Len(toolCalls) >= 3
    /\ charts # << >>
    /\ Len(charts) < Len(toolCalls)
    /\ toolCalls[1].result._chartType = ""
    /\ toolCalls[2].result._chartType # ""

(***************************************************************************)
(* services/openai.js: streamChat over the bytes of the response body      *)
(***************************************************************************)
MaxParts == 2

\* a byte of the body: the part-th piece of a line, or the line end "\n"
Byte(f, part) == [frame |-> f, part |-> part]

LineEnd == Byte(Frame("blank", ""), 0)

\* server/index.js:526, 528: the text of a line; the line between two data
\* lines is empty
written(f) == IF f.kind = "blank" THEN << >> ELSE [i \in 1..MaxParts |-> Byte(f, i)]

RECURSIVE WireOf(_)
WireOf(frames) ==
    IF frames = << >> THEN << >>
    ELSE written(Head(frames)) \o << LineEnd >> \o WireOf(Tail(frames))

\* the bodies: up to MaxFrames lines, the last one with or without its line end
Wires ==
    LET whole == { WireOf(fs) : fs \in UNION { [1..k -> Frames] : k \in 1..MaxFrames } }
    IN  whole \cup { SubSeq(w, 1, Len(w) - 1) : w \in whole }

\* openai.js:139-145: what a line of the buffer is read as; a piece of a
\* line is no data line, or one whose JSON.parse throws
decode(bytes) ==
    IF bytes = << >> THEN Frame("blank", "")
    ELSE IF \E f \in Frames : bytes = written(f)
    THEN bytes[1].frame
    ELSE Frame("malformed", "")

\* variant: nothing is kept for the next read
pop_dropped(parts) == << >>

\* openai.js:137: buf = lines.pop() || ''
pop(parts) == parts[Len(parts)]

\* openai.js:136, 138: the lines the for loop runs over, lines.pop() taken off
shifted(parts) == [i \in 1..Len(parts) - 1 |-> decode(parts[i])]

InitStream ==
    /\ wire \in Wires
    /\ buf = << >>
    /\ InitServer
    /\ InitChat
    /\ csvGrid = NoGrid
    /\ csvText = << >>
    /\ dataset = NoDataset
    /\ step = 0
    /\ input = << >>
    /\ images = 0
    /\ csvContext = FALSE
    /\ sessionCsvRows = NullData
    /\ sessionJsonData = NullJson
    /\ jsonContext = FALSE
    /\ streaming = TRUE
    /\ turn = TurnRec("stream", FALSE, << "average" >>, FALSE, FALSE, FALSE, 0)
    /\ mode = "stream"
    /\ menu = Filler("csv")
    /\ InitTurn
    /\ InitCtx
    /\ InitHost("read")
    /\ InitStored

\* openai.js:135-147: the buffer and the loop after a read of value
afterRead(value) ==
    With(split(buf \o value, LineEnd), LAMBDA parts :
    With(lines(Loop(events, local.fullContent, ""), shifted(parts), FALSE), LAMBDA st :
        [buf |-> pop(parts), events |-> st.events, content |-> st.content, left |-> st.left]))

\* openai.js:133-147: reader.read() resolves with the next bytes of the body,
\* cut wherever the network cut them; body holds the bytes read so far and
\* step counts the reads
ReadChunk ==
    /\ hpc = "read"
    /\ \E k \in 1..(Len(wire) - Len(body)) :
          LET value == SubSeq(wire, Len(body) + 1, Len(body) + k)
              after == afterRead(value)
          IN  /\ body' = body \o value
              /\ buf' = after.buf
              /\ events' = after.events
              /\ local' = [local EXCEPT !.fullContent = after.content, !.left = after.left]
              /\ hpc' = IF after.left = "" THEN "read" ELSE "idle"
    /\ step' = step + 1
    /\ UNCHANGED << uiVars, fcVars, ctxVars, csvGrid, csvText, dataset, wire, serverVars, chatVars,
                    abortRef, persisted, raceVars >>

\* openai.js:133-134: done is true once every byte has been read
EndOfBody ==
    /\ hpc = "read"
    /\ Len(body) = Len(wire)
    /\ local' = [local EXCEPT !.left = "end"]
    /\ hpc' = "idle"
    /\ UNCHANGED << uiVars, fcVars, ctxVars, svcVars, abortRef, body, events, persisted, raceVars >>

NextStream == ReadChunk \/ EndOfBody

SpecStream == InitStream /\ [][NextStream]_vars

(***************************************************************************)
(* Properties of streamChat over the bytes (specification SpecStream)      *)
(***************************************************************************)
\* the lines of some bytes that end with a line end, in order
TerminatedLines(bytes) == shifted(split(bytes, LineEnd))

\* C33: the events streamChat yields depend on the bytes of the body alone,
\* not on how the reads cut them: after every read the events are those the
\* terminated lines read so far call for up to the sentinel, each once and in
\* order, and when the generator ends they are those of the whole body.
C33_SplitIndependent ==
    /\ events = ExpectedEvents(TerminatedLines(body))
    /\ hpc = "idle" => events = ExpectedEvents(TerminatedLines(wire))

\* two text lines read a byte at a time, so each cut by every read, and
\* both yielded
C33_Witness ==
    /\ hpc = "idle"
    /\ local.left = "end"
    /\ Len(events) = 2
    /\ events[1].text = "a"
    /\ events[2].text = "b"
    /\ Len(wire) = 2 * (MaxParts + 1)
    /\ step = Len(wire)

(***************************************************************************)
(* components/Chat.js: sessions, their message loads and the CSV context   *)
(* of the prompt                                                           *)
(***************************************************************************)
MaxSessions == 3
MaxLoads == 2

parseVars == << csvGrid, csvText, dataset, step, wire, buf, serverVars >>

\* a message of the messages state, with the session it was stored or sent in
ChatMsg(session, role, content) == [session |-> session, role |-> role, content |-> content]

\* the sessions getSessions lists at login (Chat.js:152), each with one turn;
\* the first one was stored with channel JSON
StoredAtLogin == MaxSessions - 1

InitialMessages(k) ==
    IF k <= StoredAtLogin
    THEN << ChatMsg(k, "user", << "q" >>), ChatMsg(k, "model", << "a" >>) >>
    ELSE << >>

JsonOf(k) == IF k = 1 THEN [set |-> TRUE, videos |-> SampleVideos] ELSE NullJson

\* server/index.js:607-633: the reply to GET /api/messages?session_id=k, the
\* messages of the session in stored order with its jsonData
loadMessages(k) ==
    LET stored == SelectSeq(persisted, LAMBDA m : m.session = k)
    IN  [messages |-> InitialMessages(k)
                      \o [i \in 1..Len(stored) |-> ChatMsg(k, stored[i].role, stored[i].content)],
         jsonData |-> JsonOf(k)]

\* csvTools.js:207-208 and 250: '' without rows or headers, else the text
computeDatasetSummary(rows, headers) ==
    IF rows = << >> \/ headers = << >> THEN NoSummary
    ELSE [set |-> TRUE, rows |-> Len(rows), columns |-> headers]

\* csvTools.js:137-148 on the column names of the model
SLIM_PATTERNS == {"text", "View Count", "Favorite Count", "engagement"}

\* csvTools.js:151-169
buildSlimCsv(rows, headers) ==
    LET slimHeaders == SelectSeq(headers, LAMBDA h : h \in SLIM_PATTERNS)
    IN  IF rows = << >> \/ headers = << >> \/ slimHeaders = << >> THEN NoSlimCsv
        ELSE [set |-> TRUE, columns |-> slimHeaders]

\* the CSV part of promptForModel: which template was used and what it quotes
Prefix(kind, columns, summary, slim) ==
    [kind |-> kind, columns |-> columns, summary |-> summary, slim |-> slim]

NoPrefix == Prefix("", << >>, NoSummary, NoSlimCsv)

\* Chat.js:402-435; the column names of capturedCsv are those of the file
\* attached, which this model keeps with the parsed rows
csvPrefix(capturedCsv, needsBase64) ==
    IF capturedCsv
    THEN Prefix(IF needsBase64 THEN "file_base64" ELSE "file",
                sessionCsvHeaders.names, csvDataSummary, sessionSlimCsv)
    ELSE IF csvDataSummary.set
    THEN Prefix("columns",
                IF sessionCsvHeaders.set THEN sessionCsvHeaders.names ELSE << Undefined >>,
                csvDataSummary, NoSlimCsv)
    ELSE NoPrefix

\* Chat.js:436-449: csvPrefix + jsonPrefix + imagePrefix + (text || defaultPrompt)
promptForModel ==
    [csvPrefix |-> csvPrefix(csvContext, csvContext /\ wantPythonOnly(input)),
     jsonPrefix |-> sessionJsonData.videos # << >>,
     imagePrefix |-> images > 0,
     text |-> IF input # << >> THEN input
              ELSE IF jsonContext THEN << "Please analyze this YouTube channel data." >>
              ELSE IF images > 0 THEN << "What do you see in this image?" >>
              ELSE << "Please analyze this CSV data." >>]

\* Chat.js:486-488: the roles and contents of the messages displayed; the
\* session of each is kept beside them
historyOf(msgs) == SelectSeq(msgs, LAMBDA m : m.role \in {"user", "model"})

SessionTexts == { << "average" >> }

\* the CSV files dropped: a header line only, and a header line with rows
CsvFiles == { [headers |-> << >>, rows |-> << >>], [headers |-> SampleHeaders, rows |-> SampleRows] }

\* the user is logged in, the list of sessions is loaded and 'new' is active
\* (Chat.js:150-157)
InitSessions ==
    /\ input = << >>
    /\ images = 0
    /\ csvContext = FALSE
    /\ sessionCsvRows = NullData
    /\ sessionJsonData = NullJson
    /\ jsonContext = FALSE
    /\ streaming = FALSE
    /\ turn = NoTurn
    /\ mode = "none"
    /\ menu = Filler("csv")
    /\ InitTurn
    /\ InitCtx
    /\ InitSvc
    /\ InitHost("idle")
    /\ activeSessionId = 0
    /\ nSessions = StoredAtLogin
    /\ handlers = << >>

\* Chat.js:891, 894: the text box
TypeQuestion ==
    /\ ~streaming
    /\ \E text \in SessionTexts : input' = text
    /\ UNCHANGED << images, csvContext, sessionCsvRows, sessionJsonData, jsonContext,
                    streaming, turn >>
    /\ UNCHANGED idleVars

\* Chat.js:268-282 and 315-327: a CSV file is dropped or selected
DropCsv ==
    /\ \E file \in CsvFiles :
          /\ csvContext' = TRUE
          /\ sessionCsvHeaders' = [set |-> TRUE, names |-> file.headers]
          /\ sessionCsvRows' = [set |-> TRUE, rows |-> file.rows]
          /\ csvDataSummary' = computeDatasetSummary(file.rows, file.headers)
          /\ sessionSlimCsv' = buildSlimCsv(file.rows, file.headers)
    /\ UNCHANGED << input, images, sessionJsonData, jsonContext, streaming, turn >>
    /\ UNCHANGED << fcVars, ctxVars, parseVars, displayed, loads, turnVars, persisted, raceVars >>

\* Chat.js:195-205 and 159-163: New Chat, and the effect of the new
\* activeSessionId
NewChat ==
    /\ activeSessionId' = 0
    /\ displayed' = << >>
    /\ input' = << >>
    /\ images' = 0
    /\ csvContext' = FALSE
    /\ sessionCsvRows' = NullData
    /\ sessionCsvHeaders' = NullHeaders
    /\ jsonContext' = FALSE
    /\ sessionJsonData' = NullJson
    /\ UNCHANGED << streaming, turn, loads, csvDataSummary, sessionSlimCsv, nSessions, handlers >>
    /\ UNCHANGED << fcVars, ctxVars, parseVars, turnVars, persisted >>

\* Chat.js:207-216 and 159-173: a session of the list is selected; the effect
\* of the new activeSessionId clears the messages and starts loadMessages
handleSelectSession ==
    /\ Len(loads) < MaxLoads
    /\ \E sessionId \in 1..nSessions :
          /\ sessionId # activeSessionId
          /\ activeSessionId' = sessionId
          /\ loads' = Append(loads, sessionId)
    /\ input' = << >>
    /\ images' = 0
    /\ csvContext' = FALSE
    /\ sessionCsvRows' = NullData
    /\ jsonContext' = FALSE
    /\ sessionJsonData' = NullJson
    /\ displayed' = << >>
    /\ UNCHANGED << streaming, turn, sessionCsvHeaders, csvDataSummary, sessionSlimCsv,
                    nSessions, handlers >>
    /\ UNCHANGED << fcVars, ctxVars, parseVars, turnVars, persisted >>

\* Chat.js:173-179: a loadMessages call resolves, whichever was started first
LoadResolves ==
    /\ \E i \in 1..Len(loads) :
          LET reply == loadMessages(loads[i])
          IN  /\ loads' = SubSeq(loads, 1, i - 1) \o SubSeq(loads, i + 1, Len(loads))
              /\ displayed' = reply.messages
              /\ IF reply.jsonData.videos # << >>
                 THEN sessionJsonData' = reply.jsonData /\ jsonContext' = TRUE
                 ELSE UNCHANGED << sessionJsonData, jsonContext >>
    /\ UNCHANGED << input, images, csvContext, sessionCsvRows, streaming, turn >>
    /\ UNCHANGED << sessionCsvHeaders, csvDataSummary, sessionSlimCsv >>
    /\ UNCHANGED << fcVars, ctxVars, parseVars, turnVars, persisted, raceVars >>

\* Chat.js:369-496: the guard, the session created for 'new', the prompt, the
\* user message displayed and stored, the history and the assistant message
SendInSession ==
    /\ canSend
    /\ Len(persisted) < MaxSends
    /\ activeSessionId = 0 => nSessions < MaxSessions
    /\ LET sessionId == IF activeSessionId = 0 THEN nSessions + 1 ELSE activeSessionId
           content == userContent(input, images, jsonContext)
       IN  /\ activeSessionId' = sessionId
           /\ nSessions' = IF activeSessionId = 0 THEN nSessions + 1 ELSE nSessions
           /\ handlers' = << Handler("run", sessionId, Closure, jsonContext) >>
           /\ newMessage' = promptForModel
           /\ history' = historyOf(displayed)
           /\ displayed' = displayed \o << ChatMsg(sessionId, "user", content),
                                            ChatMsg(sessionId, "model", << >>) >>
           /\ persisted' = Append(persisted,
                  StoredMsg(saveMessage(sessionId, "user", content, images, << >>, << >>)))
    /\ startTurn(Closure)
    /\ UNCHANGED << loads, sessionCsvHeaders, csvDataSummary, sessionSlimCsv >>
    /\ UNCHANGED << fcVars, parseVars, turnVars >>

\* Chat.js:504-616: the path has ended; the assistant message, if it is still
\* displayed, gets the answer, which is stored in the session of the turn
EndTurn ==
    /\ streaming
    /\ handlers # << >>
    /\ LET sessionId == handlers[1].sessionId
       IN  /\ displayed' = [i \in 1..Len(displayed) |->
                               IF displayed[i] = ChatMsg(sessionId, "model", << >>)
                               THEN ChatMsg(sessionId, "model", << "answer" >>)
                               ELSE displayed[i]]
           /\ persisted' = Append(persisted,
                  StoredMsg(saveMessage(sessionId, "model", << "answer" >>, 0, << >>, << >>)))
    /\ streaming' = FALSE
    /\ turn' = NoTurn
    /\ UNCHANGED << input, images, csvContext, sessionCsvRows, sessionJsonData, jsonContext >>
    /\ UNCHANGED << loads, sessionCsvHeaders, csvDataSummary, sessionSlimCsv >>
    /\ UNCHANGED << fcVars, ctxVars, parseVars, turnVars, raceVars >>

NextSessions ==
    \/ TypeQuestion
    \/ DropCsv
    \/ NewChat
    \/ handleSelectSession
    \/ LoadResolves
    \/ SendInSession
    \/ EndTurn

SpecSessions == InitSessions /\ [][NextSessions]_vars

(***************************************************************************)
(* Properties of the sessions (specification SpecSessions)                 *)
(***************************************************************************)
\* the messages displayed are those of session k
ShowsOnly(k) == \A i \in 1..Len(displayed) : displayed[i].session = k

\* C34: whatever sessions were selected and in whatever order their loads
\* completed, once no load is in flight the messages displayed and the
\* channel JSON loaded are those of the active session, and the history a
\* turn passes is of the session the turn is saved to.
C34_ActiveSessionShown ==
    loads = << >> =>
        /\ ShowsOnly(activeSessionId)
        /\ sessionJsonData.set =>
              (activeSessionId > 0 /\ sessionJsonData = JsonOf(activeSessionId))
        /\ streaming =>
              \A i \in 1..Len(history) : history[i].session = handlers[1].sessionId

\* C36: the prompt of a turn holds CSV context (the columns header, the
\* summary or the slim CSV) only when a CSV dataset is loaded in the chat at
\* the send; nothing of a dataset of an earlier chat is in it.
C36_CsvContextOnlyWhenLoaded ==
    streaming => (newMessage.csvPrefix # NoPrefix => turn.csvLoaded)

(***************************************************************************)
(* Properties of Stop (specification SpecStop)                             *)
(***************************************************************************)
\* the body of handleSend entered with the flag clear: whenever the flag is
\* found set, Stop was pressed in this turn
InitStop ==
    /\ InitBody
    /\ ~abortRef

SpecStop == InitStop /\ [][NextTurn]_vars

\* the answers a streamed turn can hold
StreamAnswers == UNION { [1..k -> {"a", "b"}] : k \in 0..MaxFrames }

\* Stop has been pressed in a streamed turn whose stream has not ended
StopPending ==
    /\ turn.path = "stream"
    /\ streaming
    /\ abortRef
    /\ local.left = ""
    /\ ret.status # "raised"

\* C35: in streaming mode a Stop pressed after the streaming flag became true
\* and before the stream has ended is never lost: no step of the turn drops
\* the request while the turn is in flight, and no step appends a chunk to
\* the answer while the request stands (the text of a caught error aside).
C35_StopNeverLost ==
    [][ StopPending =>
            /\ (streaming' => abortRef')
            /\ (ret'.status = "raised" \/ local'.fullContent = local.fullContent) ]_vars

\* the same for a Stop pressed once the handler has reset the flag
\* (Chat.js:496): it holds
C35_AfterReset ==
    [][ (StopPending /\ hpc # "saveUser") =>
            /\ (streaming' => abortRef')
            /\ (ret'.status = "raised" \/ local'.fullContent = local.fullContent) ]_vars

\* what the lost request leads to: from a press on, the answer stays as it was
\* at the press; violated by a chunk appended after the flag was reset
C35_NoChunkAfterStop ==
    \A c \in StreamAnswers :
        []( (StopPending /\ local.fullContent = c)
            => [](ret.status = "raised" \/ local.fullContent = c) )

(***************************************************************************)
(* Properties of the end of a turn (specification SpecLive)                *)
(***************************************************************************)
\* the steps of the handler, of the orchestrator it called and of the
\* requests it awaits: the store, the completion endpoint, the image
\* endpoint and the reads of the streamed body
TurnStep ==
    \/ Dispatch
    \/ Settle
    \/ StreamRefused
    \/ StreamOpens
    \/ StreamChunk
    \/ StreamEnds
    \/ PersistReply
    \/ Next

\* the turns of SpecTurn with a plain text, which takes the path of what is
\* loaded, and a menu whose tool returns, throws or awaits the image endpoint
InitLive ==
    /\ InitBody
    /\ turn.text = << "average" >>
    /\ menu.name # "play_video"

\* every awaited call returns and the handler runs on; Stop is up to the user
SpecLive == InitLive /\ [][NextTurn]_vars /\ WF_vars(TurnStep)

\* the turn has ended: the flag is clear and its session holds the user
\* message and then the model message of the turn, and nothing else of it
TurnStored ==
    /\ hpc = "idle"
    /\ ~streaming
    /\ Len(persisted) = 2
    /\ persisted[1].role = "user"
    /\ persisted[2].role = "model"
    /\ \A i \in 1..2 : persisted[i].session = activeSessionId

\* C37: a turn that has passed the send guard ends, whatever the completion
\* endpoint answers and whether or not Stop is pressed: the streaming flag is
\* cleared and exactly one user message followed by exactly one model message
\* is stored in the session of the turn.
C37_TurnCompletes == <>[]TurnStored

\* the turn has ended on a refused request after a round of tool calls
C37_Witness ==
    /\ TurnStored
    /\ ret.status = "raised"
    /\ nRequests >= 2
    /\ toolCalls # << >>

\* the turn has ended on the abort flag seen by the streaming loop
C37_WitnessStop ==
    /\ TurnStored
    /\ local.left = "break"

\* the turn has ended after the last round of the loop
C37_WitnessRounds ==
    /\ TurnStored
    /\ ret.status = "returned"
    /\ nRequests = MaxRounds

\* ---------------------------------------------------------------------------
\* SpecDuration: the duration strings the server writes into a channel's data
\* (server/index.js) and what parseDuration (youtubeTools.js) reads from them.
\* A string is the sequence of its characters.

\* the longest video, in seconds
MaxSeconds == 3725

\* String(n) of a whole number: its decimal digits
RECURSIVE DecimalOf(_)
DecimalOf(n) ==
    IF n < 10 THEN << Digits[n + 1] >>
    ELSE DecimalOf(n \div 10) \o << Digits[(n % 10) + 1] >>

\* secToIsoDuration without its hours
secToIsoDuration_noHours(sec) ==
    LET m == (sec % 3600) \div 60
        secs == sec % 60
    IN  << "P", "T" >>
        \o (IF m # 0 THEN DecimalOf(m) \o << "M" >> ELSE << >>)
        \o DecimalOf(secs) \o << "S" >>

\* server/index.js:223-232 on a whole number of seconds (never null nor '')
secToIsoDuration(sec) ==
    LET h == sec \div 3600
        m == (sec % 3600) \div 60
        secs == sec % 60
    IN  << "P", "T" >>
        \o (IF h # 0 THEN DecimalOf(h) \o << "H" >> ELSE << >>)
        \o (IF m # 0 THEN DecimalOf(m) \o << "M" >> ELSE << >>)
        \o DecimalOf(secs) \o << "S" >>

\* server/index.js:368: the template `PT${Math.floor(v.lengthSeconds / 60)}M${v.lengthSeconds % 60}S`
InvidiousForm(lengthSeconds) ==
    << "P", "T" >> \o DecimalOf(lengthSeconds \div 60) \o << "M" >>
    \o DecimalOf(lengthSeconds % 60) \o << "S" >>

\* server/index.js:277: duration: v.duration ? secToIsoDuration(v.duration) : ''
ytDlpField(duration) ==
    IF duration # 0 THEN secToIsoDuration(duration) ELSE << >>

\* server/index.js:368: duration: v.lengthSeconds ? `PT...M...S` : ''
invidiousField(lengthSeconds) ==
    IF lengthSeconds # 0 THEN InvidiousForm(lengthSeconds) ELSE << >>

\* youtubeTools.js:79-87 on a string
parseDurationString(dur) ==
    IF dur = << >> THEN Null ELSE matchDuration(dur)

Producers == { "yt-dlp", "invidious" }

InitDuration ==
    /\ csvGrid = NoGrid
    /\ csvText = << >>
    /\ dataset = NoDataset
    /\ step = 0
    /\ wire = << >>
    /\ buf = << >>
    /\ \E p \in Producers, sec \in 0..MaxSeconds :
          clip = [NoClip EXCEPT !.stage = "fetched", !.producer = p, !.seconds = sec]
    /\ users = << >>
    /\ requests = << >>
    /\ InitChat
    /\ input = << >>
    /\ csvContext = FALSE
    /\ jsonContext = FALSE
    /\ streaming = FALSE
    /\ mode = "json"
    /\ sessionCsvRows = NullData
    /\ sessionJsonData = NullJson
    /\ images = 0
    /\ turn = NoTurn
    /\ menu = Filler(mode)
    /\ InitTurn
    /\ InitCtx
    /\ InitHost("idle")
    /\ InitStored

\* secToIsoDuration, or the template of the Invidious producer, is applied to
\* the length of the video
WriteDuration ==
    /\ clip.stage = "fetched"
    /\ clip' = [clip EXCEPT !.stage = "written", !.via = "function",
                            !.duration = IF clip.producer = "yt-dlp"
                                         THEN secToIsoDuration(clip.seconds)
                                         ELSE InvidiousForm(clip.seconds)]
    /\ UNCHANGED << csvGrid, csvText, dataset, step, wire, buf, users, requests, chatVars >>
    /\ UNCHANGED << uiVars, fcVars, ctxVars, turnVars, persisted, raceVars >>

\* server/index.js:277 and 368: the producer fills the duration field of the
\* video record
WriteField ==
    /\ clip.stage = "fetched"
    /\ clip' = [clip EXCEPT !.stage = "written", !.via = "field",
                            !.duration = IF clip.producer = "yt-dlp"
                                         THEN ytDlpField(clip.seconds)
                                         ELSE invidiousField(clip.seconds)]
    /\ UNCHANGED << csvGrid, csvText, dataset, step, wire, buf, users, requests, chatVars >>
    /\ UNCHANGED << uiVars, fcVars, ctxVars, turnVars, persisted, raceVars >>

\* youtubeTools.js:107 and 168: a tool reads the duration of the video
ReadDuration ==
    /\ clip.stage = "written"
    /\ clip' = [clip EXCEPT !.stage = "read",
                            !.parsed = parseDurationString(clip.duration)]
    /\ UNCHANGED << csvGrid, csvText, dataset, step, wire, buf, users, requests, chatVars >>
    /\ UNCHANGED << uiVars, fcVars, ctxVars, turnVars, persisted, raceVars >>

NextDuration ==
    \/ WriteDuration
    \/ WriteField
    \/ ReadDuration

SpecDuration == InitDuration /\ [][NextDuration]_vars

\* C38: for every whole number of seconds from 0 on, parseDuration of
\* secToIsoDuration of that number is that number, and parseDuration of the
\* Invidious form PT<minutes>M<seconds>S of that number is that number.
C38_RoundTrip ==
    (clip.stage = "read" /\ clip.via = "function") =>
        clip.parsed = Seconds(clip.seconds)

\* a video of more than an hour, with minutes and seconds, was written by
\* secToIsoDuration with all three units and read back
C38_Witness ==
    /\ clip.stage = "read"
    /\ clip.via = "function"
    /\ clip.producer = "yt-dlp"
    /\ clip.seconds = 3661
    /\ clip.duration = << "P", "T", "1", "H", "1", "M", "1", "S" >>
    /\ clip.parsed = Seconds(3661)

\* more than an hour in the Invidious form: the minutes go beyond 59
C38_WitnessMinutes ==
    /\ clip.stage = "read"
    /\ clip.via = "function"
    /\ clip.producer = "invidious"
    /\ clip.seconds = 3661
    /\ clip.duration = << "P", "T", "6", "1", "M", "1", "S" >>
    /\ clip.parsed = Seconds(3661)

\* zero seconds, in both forms
C38_WitnessZero ==
    /\ clip.stage = "read"
    /\ clip.via = "function"
    /\ clip.seconds = 0
    /\ clip.duration \in { << "P", "T", "0", "S" >>, << "P", "T", "0", "M", "0", "S" >> }
    /\ clip.parsed = Seconds(0)

\* the duration field of a video record is read back as the length it was
\* written from, except for a length of 0, which both producers write as the
\* empty string and the tools read as null
C38_FieldsReadBack ==
    (clip.stage = "read" /\ clip.via = "field") =>
        IF clip.seconds = 0
        THEN clip.duration = << >> /\ clip.parsed = Null
        ELSE clip.parsed = Seconds(clip.seconds)

\* ---------------------------------------------------------------------------
\* SpecRegister: POST /api/users (server/index.js:60-81). The handler awaits
\* findOne, bcrypt.hash and insertOne; between two awaits of a request the
\* server runs the steps of the other requests.

\* registration requests received
MaxRequests == 3

\* the usernames of the request bodies: 'An', ' an', 'b' and ''
Usernames == { << "A", "n" >>, << " ", "a", "n" >>, << "b" >>, << >> }

\* String.prototype.toLowerCase on the characters of a string
toLowerCase(str) ==
    [i \in 1..Len(str) |-> CASE str[i] = "A" -> "a"
                             [] str[i] = "B" -> "b"
                             [] str[i] = "N" -> "n"
                             [] OTHER -> str[i]]

\* server/index.js:65: String(username).trim().toLowerCase()
normalize(username) == toLowerCase(trim(username))

\* the responses of the handler
Unanswered == [status |-> 0, error |-> ""]
Registered == [status |-> 200, error |-> ""]
Required == [status |-> 400, error |-> "Username and password required"]
Exists == [status |-> 400, error |-> "Username already exists"]

InitRegister ==
    /\ csvGrid = NoGrid
    /\ csvText = << >>
    /\ dataset = NoDataset
    /\ step = 0
    /\ wire = << >>
    /\ buf = << >>
    /\ InitServer
    /\ InitChat
    /\ input = << >>
    /\ csvContext = FALSE
    /\ jsonContext = FALSE
    /\ streaming = FALSE
    /\ mode = "none"
    /\ sessionCsvRows = NullData
    /\ sessionJsonData = NullJson
    /\ images = 0
    /\ turn = NoTurn
    /\ menu = Filler("csv")
    /\ InitTurn
    /\ InitCtx
    /\ InitHost("idle")
    /\ InitStored

\* what a step of the registration handler leaves alone
RegisterRest ==
    /\ UNCHANGED << csvGrid, csvText, dataset, step, wire, buf, clip, chatVars >>
    /\ UNCHANGED << uiVars, fcVars, ctxVars, turnVars, persisted, raceVars >>

\* server/index.js:60-66: a request arrives; the handler answers 400 when the
\* username or the password is missing, else it normalizes the username and
\* calls findOne
Receive ==
    /\ Len(requests) < MaxRequests
    /\ \E username \in Usernames, password \in BOOLEAN :
          requests' = Append(requests,
              IF username = << >> \/ ~password
              THEN [pc |-> "done", name |-> << >>, response |-> Required]
              ELSE [pc |-> "findOne", name |-> normalize(username),
                    response |-> Unanswered])
    /\ UNCHANGED users
    /\ RegisterRest

\* server/index.js:66-68: findOne resolves with the record of that username
\* if the collection holds one; the handler answers 400 then, else it calls
\* bcrypt.hash
FindOne(k) ==
    /\ requests[k].pc = "findOne"
    /\ LET existing == \E i \in 1..Len(users) : users[i].username = requests[k].name
       IN  requests' = [requests EXCEPT ![k] =
                IF existing THEN [@ EXCEPT !.pc = "done", !.response = Exists]
                ELSE [@ EXCEPT !.pc = "hash"]]
    /\ UNCHANGED users
    /\ RegisterRest

\* server/index.js:68-69: the hash is computed and the handler calls insertOne
Hash(k) ==
    /\ requests[k].pc = "hash"
    /\ requests' = [requests EXCEPT ![k].pc = "insertOne"]
    /\ UNCHANGED users
    /\ RegisterRest

\* server/index.js:69-77: the collection, which has no unique index, takes the
\* record and the handler answers { ok: true }
InsertOne(k) ==
    /\ requests[k].pc = "insertOne"
    /\ users' = Append(users, [username |-> requests[k].name, by |-> k])
    /\ requests' = [requests EXCEPT ![k].pc = "done", ![k].response = Registered]
    /\ RegisterRest

NextRegister ==
    \/ Receive
    \/ \E k \in 1..Len(requests) : FindOne(k)
    \/ \E k \in 1..Len(requests) : Hash(k)
    \/ \E k \in 1..Len(requests) : InsertOne(k)

SpecRegister == InitRegister /\ [][NextRegister]_vars

\* C39: the users collection never holds two records with the same normalized
\* username, and of the requests that register one username at most one is
\* answered with success.
C39_UniqueUsernames ==
    /\ \A i, j \in 1..Len(users) : users[i].username = users[j].username => i = j
    /\ \A i, j \in 1..Len(requests) :
          (/\ requests[i].response = Registered
           /\ requests[j].response = Registered
           /\ requests[i].name = requests[j].name) => i = j

\* requests that do not overlap are kept apart: a request that calls findOne
\* after the record of its username was inserted is answered with
\* 'Username already exists' and inserts nothing
C39_LateRequestRefused ==
    \A k \in 1..Len(requests) :
        requests[k].response = Exists =>
            /\ \E i \in 1..Len(users) : users[i].username = requests[k].name
            /\ \A i \in 1..Len(users) : users[i].by # k

\* 'An' was registered and a later ' an' was refused
C39_RefusedReached ==
    \E i, j \in 1..Len(requests) :
        /\ requests[i].response = Registered
        /\ requests[j].response = Exists
        /\ requests[i].name = << "a", "n" >>
        /\ requests[j].name = << "a", "n" >>

====
